---- MODULE Spec2Model ----
(***************************************************************************)
(* Model of the intraday back-testing engine of imnekib/angelone:          *)
(* modules/simulator.py (calculate_transaction_charges, simulate_trades).  *)
(*                                                                         *)
(* Money.  The source computes in Python floats.  Here every monetary      *)
(* value (prices, ATR, cash, charges, profit/loss) is an integer number of *)
(* 1/Unit rupees, and the rates of the configurations below are chosen so  *)
(* that every division the source performs is exact in that unit: the      *)
(* arithmetic of the model is the real-number arithmetic of the source,    *)
(* without floating-point rounding.                                        *)
(*                                                                         *)
(* Time.  A timestamp is the number of minutes since midnight of day 0;    *)
(* its calendar day is timestamp \div 1440.                                *)
(***************************************************************************)
EXTENDS Integers, Sequences, FiniteSets, TLC

\* ------------------------------------------------------------------ bounds
\* Longest bar sequence (rows of `data`) a run processes.
MaxBars == 3

\* Most calls of calculate_transaction_charges a behaviour of SpecCharges makes.
MaxCalls == 2

\* Most instruments (tokens) the loop of main simulates in one behaviour of SpecMain.
MaxInstruments == 2

\* One rupee, in model units.  A buy with trade_allocation 1/2 halves
\* free_cash, and charges are two successive percentages with rates that are
\* multiples of ten, so 100 * 2^MaxBars keeps every amount integral.
Unit == 100 * (2 ^ MaxBars)

\* ------------------------------------------------------------------ inputs
Days == {1, 2}
\* 09:20, 09:25, 14:30 (no-new-buy deadline), 15:00 (square-off deadline)
Minutes == {560, 565, 870, 900}
Timestamps == {d * 1440 + m : d \in Days, m \in Minutes}
Closes == {8 * Unit, 12 * Unit}
ATRs == {4 * Unit}
Rows ==
    [timestamp : Timestamps, close : Closes, ATR : ATRs,
     Buy_Signal : BOOLEAN, Sell_Signal : BOOLEAN]

ZeroRates ==
    [BROKERAGE |-> 0, STT |-> 0, TRANSACTION |-> 0, SEBI |-> 0, GST |-> 0, STAMP |-> 0]
TenRates ==
    [BROKERAGE |-> 10, STT |-> 10, TRANSACTION |-> 10, SEBI |-> 10, GST |-> 10, STAMP |-> 10]
ZeroCharges == [BUY |-> ZeroRates, SELL |-> ZeroRates]
TenCharges == [BUY |-> TenRates, SELL |-> TenRates]
\* Rates that differ by component and by side.
MixedCharges ==
    [BUY |-> [BROKERAGE |-> 10, STT |-> 20, TRANSACTION |-> 30, SEBI |-> 40,
              GST |-> 50, STAMP |-> 60],
     SELL |-> [BROKERAGE |-> 20, STT |-> 10, TRANSACTION |-> 40, SEBI |-> 30,
               GST |-> 10, STAMP |-> 70]]

\* Arguments of the direct calls of calculate_transaction_charges: turnovers
\* from 8 to 2500 rupees, on both sides of the point where brokerage is capped.
ChargePrices == {8 * Unit, 12 * Unit, 100 * Unit}
ChargeQuantities == {1, 2, 16, 20, 25}
TransactionTypes == {"BUY", "SELL"}
ChargeConfigs == {ZeroCharges, TenCharges, MixedCharges}

\* The arguments of a run; trade_allocation is the fraction num/den.
TradeConfig(num, den, leverage, charges_config) ==
    [initial_capital |-> 20 * Unit,
     trade_allocation |-> [num |-> num, den |-> den],
     leverage |-> leverage,
     target_profit_percentage |-> 50,
     atr_multiplier |-> 1,
     charges_config |-> charges_config]

Configs ==
    { TradeConfig(1, 2, 5, TenCharges),
      TradeConfig(1, 1, 1, ZeroCharges) }

\* ------------------------------------------------------------------ helpers
Min(a, b) == IF a <= b THEN a ELSE b

\* x * (rate / 100)
Pct(x, rate) == (x * rate) \div 100

Last(s) == s[Len(s)]

RECURSIVE SumSeq(_)
SumSeq(s) == IF s = <<>> THEN 0 ELSE Head(s) + SumSeq(Tail(s))

\* Mutant: remove() that leaves the deque as it is.
RemoveFirst_KeepsAll(s, x) == s

\* deque.remove(x): drops the first element equal to x.
RECURSIVE RemoveFirst(_, _)
RemoveFirst(s, x) ==
    IF s = <<>> THEN <<>>
    ELSE IF Head(s) = x THEN Tail(s)
    ELSE <<Head(s)>> \o RemoveFirst(Tail(s), x)

\* ------------------------------------------------------------------ charges
\* Mutant: brokerage without its cap.
calculate_transaction_charges_NoCap(price, quantity, transaction_type, charges_config) ==
    LET rates == charges_config[transaction_type]
        turnover == price * quantity
        brokerage == Pct(turnover, rates.BROKERAGE)
        stt == Pct(turnover, rates.STT)
        transaction_charge == Pct(turnover, rates.TRANSACTION)
        sebi_charge == Pct(turnover, rates.SEBI)
        gst == Pct(brokerage + transaction_charge + sebi_charge, rates.GST)
        stamp_duty == IF transaction_type = "BUY" THEN Pct(turnover, rates.STAMP) ELSE 0
    IN  [total |-> brokerage + stt + transaction_charge + sebi_charge + gst + stamp_duty,
         brokerage |-> brokerage,
         stt |-> stt,
         transaction_charge |-> transaction_charge,
         sebi_charge |-> sebi_charge,
         gst |-> gst,
         stamp_duty |-> stamp_duty]

\* Mutant: brokerage dropped, instead of capped, once it exceeds the cap.
calculate_transaction_charges_WaivedAboveCap(price, quantity, transaction_type, charges_config) ==
    LET rates == charges_config[transaction_type]
        turnover == price * quantity
        brokerage == IF Pct(turnover, rates.BROKERAGE) <= 20 * Unit
                     THEN Pct(turnover, rates.BROKERAGE) ELSE 0
        stt == Pct(turnover, rates.STT)
        transaction_charge == Pct(turnover, rates.TRANSACTION)
        sebi_charge == Pct(turnover, rates.SEBI)
        gst == Pct(brokerage + transaction_charge + sebi_charge, rates.GST)
        stamp_duty == IF transaction_type = "BUY" THEN Pct(turnover, rates.STAMP) ELSE 0
    IN  [total |-> brokerage + stt + transaction_charge + sebi_charge + gst + stamp_duty,
         brokerage |-> brokerage,
         stt |-> stt,
         transaction_charge |-> transaction_charge,
         sebi_charge |-> sebi_charge,
         gst |-> gst,
         stamp_duty |-> stamp_duty]

\* Mutant: stamp duty charged on both sides.
calculate_transaction_charges_StampOnSell(price, quantity, transaction_type, charges_config) ==
    LET rates == charges_config[transaction_type]
        turnover == price * quantity
        brokerage == Min(Pct(turnover, rates.BROKERAGE), 20 * Unit)
        stt == Pct(turnover, rates.STT)
        transaction_charge == Pct(turnover, rates.TRANSACTION)
        sebi_charge == Pct(turnover, rates.SEBI)
        gst == Pct(brokerage + transaction_charge + sebi_charge, rates.GST)
        stamp_duty == Pct(turnover, rates.STAMP)
    IN  [total |-> brokerage + stt + transaction_charge + sebi_charge + gst + stamp_duty,
         brokerage |-> brokerage,
         stt |-> stt,
         transaction_charge |-> transaction_charge,
         sebi_charge |-> sebi_charge,
         gst |-> gst,
         stamp_duty |-> stamp_duty]

\* Lines 7-27.
calculate_transaction_charges(price, quantity, transaction_type, charges_config) ==
    LET rates == charges_config[transaction_type]
        turnover == price * quantity
        brokerage == Min(Pct(turnover, rates.BROKERAGE), 20 * Unit)
        stt == Pct(turnover, rates.STT)
        transaction_charge == Pct(turnover, rates.TRANSACTION)
        sebi_charge == Pct(turnover, rates.SEBI)
        gst == Pct(brokerage + transaction_charge + sebi_charge, rates.GST)
        stamp_duty == IF transaction_type = "BUY" THEN Pct(turnover, rates.STAMP) ELSE 0
    IN  [total |-> brokerage + stt + transaction_charge + sebi_charge + gst + stamp_duty,
         brokerage |-> brokerage,
         stt |-> stt,
         transaction_charge |-> transaction_charge,
         sebi_charge |-> sebi_charge,
         gst |-> gst,
         stamp_duty |-> stamp_duty]

\* ------------------------------------------------------------------ time windows
trade_day(timestamp) == timestamp \div 1440
market_close_time(timestamp) == trade_day(timestamp) * 1440 + 15 * 60 + 30
\* Mutant: square-off deadline without its 30 minute offset.
square_off_time_AtClose(timestamp) == market_close_time(timestamp)
square_off_time(timestamp) == market_close_time(timestamp) - 30
\* Mutant: no-new-buy deadline with the square-off offset.
no_new_buys_time_ThirtyMinutes(timestamp) == market_close_time(timestamp) - 30
no_new_buys_time(timestamp) == market_close_time(timestamp) - 60

\* ------------------------------------------------------------------ state
VARIABLES
    config,               \* the arguments of simulate_trades
    data,                 \* the rows of `data` iterated so far
    pc,                   \* "loop" while iterating, "done" after the return
    capital,
    free_cash,
    total_profit_loss,
    total_revenue,
    total_cost,
    trades,
    missed_signals,
    daily_summary,
    long_positions,
    current_day,          \* 0 stands for None
    start_of_day_capital, \* unbound in the source until the first row
    daily_margin_used,
    daily_profit_loss,
    final_summary,        \* set by the return
    charges_calls,        \* calls of calculate_transaction_charges made on their own
    summary_data,         \* main: one entry per simulated instrument
    runs,                 \* history: arguments and results of the finished calls
    tokens_json,          \* auth: the contents of the token file tokens.json
    environ,              \* auth: os.environ at the keys client_id, pin, totp_secret
    credentials,          \* auth: the arguments get_auth_token was called with
    auth_pc,              \* auth: where the call of get_auth_token stands
    auth_handlers,        \* auth: the try blocks the current call stands in, innermost last
    auth_trace,           \* auth: the remote calls and token saves made, with outcomes
    auth_result,          \* auth: what get_auth_token returned or raised
    historical_data_db,   \* data_fetcher: the rows of the table historical_data
    candle_calls,         \* data_fetcher: the getCandleData calls made, with their answers
    fetch_results,        \* data_fetcher: the calls of fetch_historical_data_with_cache made
    main_pc,              \* main: where main stands
    token_index,          \* main: the position in token_data, 0 before the loop
    summary_file          \* main: what save_summary was given, unwritten before

\* The state of the authentication, apart from the simulation.
authVars ==
    <<tokens_json, environ, credentials, auth_pc, auth_handlers, auth_trace, auth_result>>

\* The state of the historical-data cache and of the remote candle service.
cacheVars == <<historical_data_db, candle_calls, fetch_results>>

\* The state of main around its instrument loop.
batchVars == <<main_pc, token_index, summary_file>>

\* The state outside simulate_trades.
ioVars == <<authVars, cacheVars, batchVars>>

vars ==
    <<config, data, pc, capital, free_cash, total_profit_loss, total_revenue,
      total_cost, trades, missed_signals, daily_summary, long_positions,
      current_day, start_of_day_capital, daily_margin_used, daily_profit_loss,
      final_summary, charges_calls, summary_data, runs, ioVars>>

\* The mutable locals of simulate_trades, as one record the steps transform.
EngineState ==
    [capital |-> capital,
     free_cash |-> free_cash,
     total_profit_loss |-> total_profit_loss,
     total_revenue |-> total_revenue,
     total_cost |-> total_cost,
     trades |-> trades,
     missed_signals |-> missed_signals,
     daily_summary |-> daily_summary,
     long_positions |-> long_positions,
     current_day |-> current_day,
     start_of_day_capital |-> start_of_day_capital,
     daily_margin_used |-> daily_margin_used,
     daily_profit_loss |-> daily_profit_loss]

TradeEvent(row, type, shares, profit_loss, details, reason) ==
    [Time |-> row.timestamp,
     Type |-> type,
     Price |-> row.close,
     Shares |-> shares,
     ProfitLoss |-> profit_loss,
     Charges |-> details.total,
     Brokerage |-> details.brokerage,
     STT |-> details.stt,
     TransactionCharge |-> details.transaction_charge,
     SEBICharge |-> details.sebi_charge,
     GST |-> details.gst,
     StampDuty |-> details.stamp_duty,
     Reason |-> reason]

\* ------------------------------------------------------------------ square-off
\* Mutant: square-off whose cost leaves out the buy charges.
SquareOffPosition_IgnoresBuyCharges(s, position, row, cfg) ==
    LET shares_to_sell == position.shares
        sell_charges_details ==
            calculate_transaction_charges(row.close, shares_to_sell, "SELL", cfg.charges_config)
        sell_revenue == shares_to_sell * row.close - sell_charges_details.total
        cost == shares_to_sell * position.price
        profit_loss == sell_revenue - cost
    IN  [s EXCEPT
            !.total_profit_loss = @ + profit_loss,
            !.daily_profit_loss = @ + profit_loss,
            !.capital = @ + profit_loss,
            !.free_cash = @ + position.margin_used + sell_revenue,
            !.long_positions = RemoveFirst(@, position),
            !.trades = Append(@, TradeEvent(row, "Square Off", shares_to_sell, profit_loss,
                                            sell_charges_details,
                                            "Square Off Before Market Close"))]

\* Body of the loop of lines 80-107 for one position.
SquareOffPosition(s, position, row, cfg) ==
    LET shares_to_sell == position.shares
        sell_charges_details ==
            calculate_transaction_charges(row.close, shares_to_sell, "SELL", cfg.charges_config)
        sell_revenue == shares_to_sell * row.close - sell_charges_details.total
        cost == shares_to_sell * position.price + position.buy_charges
        profit_loss == sell_revenue - cost
    IN  [s EXCEPT
            !.total_profit_loss = @ + profit_loss,
            !.daily_profit_loss = @ + profit_loss,
            !.capital = @ + profit_loss,
            !.free_cash = @ + position.margin_used + sell_revenue,
            !.long_positions = RemoveFirst(@, position),
            !.trades = Append(@, TradeEvent(row, "Square Off", shares_to_sell, profit_loss,
                                            sell_charges_details,
                                            "Square Off Before Market Close"))]

RECURSIVE SquareOffLoop(_, _, _, _)
SquareOffLoop(s, snapshot, row, cfg) ==
    IF snapshot = <<>> THEN s
    ELSE SquareOffLoop(SquareOffPosition(s, Head(snapshot), row, cfg), Tail(snapshot), row, cfg)

\* Mutant: the scheduled square-off leaves a bar with sell signal to the exit evaluation.
SquareOffStep_UnlessSellSignal(s, row, cfg) ==
    IF /\ row.timestamp >= square_off_time(row.timestamp)
       /\ s.long_positions # <<>>
       /\ ~row.Sell_Signal
    THEN SquareOffLoop(s, s.long_positions, row, cfg)
    ELSE s

\* Mutant: no scheduled square-off; the deadline is left to the exit evaluation.
SquareOffStep_Never(s, row, cfg) == s

\* Lines 79-107.
SquareOffStep(s, row, cfg) ==
    IF row.timestamp >= square_off_time(row.timestamp) /\ s.long_positions # <<>>
    THEN SquareOffLoop(s, s.long_positions, row, cfg)
    ELSE s

\* ------------------------------------------------------------------ day rollover
\* Mutant: the new day keeps the start-of-day capital of the day before.
NewDayStep_KeepsStart(s, row) ==
    IF s.current_day # trade_day(row.timestamp)
    THEN [s EXCEPT
            !.daily_summary =
                IF s.current_day # 0
                THEN Append(@, [Date |-> s.current_day,
                                StartOfDayCapital |-> s.start_of_day_capital,
                                EndOfDayCapital |-> s.capital])
                ELSE @,
            !.current_day = trade_day(row.timestamp),
            !.free_cash = s.capital,
            !.daily_margin_used = 0,
            !.daily_profit_loss = 0]
    ELSE s

\* Mutant: the day change that leaves free cash as the day before left it.
NewDayStep_KeepsFreeCash(s, row) ==
    IF s.current_day # trade_day(row.timestamp)
    THEN [s EXCEPT
            !.daily_summary =
                IF s.current_day # 0
                THEN Append(@, [Date |-> s.current_day,
                                StartOfDayCapital |-> s.start_of_day_capital,
                                EndOfDayCapital |-> s.capital])
                ELSE @,
            !.current_day = trade_day(row.timestamp),
            !.start_of_day_capital = s.capital,
            !.daily_margin_used = 0,
            !.daily_profit_loss = 0]
    ELSE s

\* Mutant: the day change that logs no snapshot of the day that ended.
NewDayStep_NoSnapshot(s, row) ==
    IF s.current_day # trade_day(row.timestamp)
    THEN [s EXCEPT
            !.current_day = trade_day(row.timestamp),
            !.start_of_day_capital = s.capital,
            !.free_cash = s.capital,
            !.daily_margin_used = 0,
            !.daily_profit_loss = 0]
    ELSE s

NewDayStep(s, row) ==
    IF s.current_day # trade_day(row.timestamp)
    THEN [s EXCEPT
            !.daily_summary =
                IF s.current_day # 0
                THEN Append(@, [Date |-> s.current_day,
                                StartOfDayCapital |-> s.start_of_day_capital,
                                EndOfDayCapital |-> s.capital])
                ELSE @,
            !.current_day = trade_day(row.timestamp),
            !.start_of_day_capital = s.capital,
            !.free_cash = s.capital,
            !.daily_margin_used = 0,
            !.daily_profit_loss = 0]
    ELSE s

\* ------------------------------------------------------------------ entry
\* Mutant: the buy gate closes only after the deadline.
BuyRestricted_Strict(row) ==
    row.timestamp > no_new_buys_time(row.timestamp) /\ row.Buy_Signal

\* Lines 126-129: the row is abandoned (continue) after the missed signal.
BuyRestricted(row) ==
    row.timestamp >= no_new_buys_time(row.timestamp) /\ row.Buy_Signal

\* Mutant: the restricted buy signal dropped without a record.
RestrictedStep_Silent(s, row) == s

RestrictedStep(s, row) ==
    [s EXCEPT !.missed_signals =
        Append(@, [Time |-> row.timestamp, Price |-> row.close,
                   Reason |-> "Buy restricted near market close"])]

\* Mutant: margin allocated from capital instead of free cash.
allocated_margin_FromCapital(s, cfg) ==
    (s.capital * cfg.trade_allocation.num) \div cfg.trade_allocation.den

allocated_margin(s, cfg) ==
    (s.free_cash * cfg.trade_allocation.num) \div cfg.trade_allocation.den

leveraged_buying_power(s, cfg) == allocated_margin(s, cfg) * cfg.leverage

\* Mutant: the share count rounded up instead of down.
BuyStep_RoundsUp(s, row, cfg) ==
    IF ~row.Buy_Signal THEN s
    ELSE IF leveraged_buying_power(s, cfg) >= row.close
    THEN LET shares_to_buy == (leveraged_buying_power(s, cfg) + row.close - 1) \div row.close
             buy_charges_details ==
                 calculate_transaction_charges(row.close, shares_to_buy, "BUY", cfg.charges_config)
             buy_cost == shares_to_buy * row.close + buy_charges_details.total
         IN  IF shares_to_buy > 0
             THEN [s EXCEPT
                     !.total_cost = @ + buy_cost,
                     !.free_cash = @ - allocated_margin(s, cfg),
                     !.daily_margin_used = @ + allocated_margin(s, cfg),
                     !.long_positions =
                         Append(@, [shares |-> shares_to_buy,
                                    price |-> row.close,
                                    buy_charges |-> buy_charges_details.total,
                                    margin_used |-> allocated_margin(s, cfg),
                                    target_price |->
                                        Pct(row.close, 100 + cfg.target_profit_percentage),
                                    trailing_stop_loss |->
                                        row.close - row.ATR * cfg.atr_multiplier]),
                     !.trades = Append(@, TradeEvent(row, "Buy", shares_to_buy, 0,
                                                     buy_charges_details, "Buy Signal"))]
             ELSE s
    ELSE [s EXCEPT !.missed_signals =
            Append(@, [Time |-> row.timestamp, Price |-> row.close,
                       Reason |-> "Insufficient Funds"])]

\* Mutant: the buy that also takes its charges out of the capital.
BuyStep_ChargesCapital(s, row, cfg) ==
    IF ~row.Buy_Signal THEN s
    ELSE IF leveraged_buying_power(s, cfg) >= row.close
    THEN LET shares_to_buy == leveraged_buying_power(s, cfg) \div row.close
             buy_charges_details ==
                 calculate_transaction_charges(row.close, shares_to_buy, "BUY", cfg.charges_config)
             buy_cost == shares_to_buy * row.close + buy_charges_details.total
         IN  IF shares_to_buy > 0
             THEN [s EXCEPT
                     !.capital = @ - buy_charges_details.total,
                     !.total_cost = @ + buy_cost,
                     !.free_cash = @ - allocated_margin(s, cfg),
                     !.daily_margin_used = @ + allocated_margin(s, cfg),
                     !.long_positions =
                         Append(@, [shares |-> shares_to_buy,
                                    price |-> row.close,
                                    buy_charges |-> buy_charges_details.total,
                                    margin_used |-> allocated_margin(s, cfg),
                                    target_price |->
                                        Pct(row.close, 100 + cfg.target_profit_percentage),
                                    trailing_stop_loss |->
                                        row.close - row.ATR * cfg.atr_multiplier]),
                     !.trades = Append(@, TradeEvent(row, "Buy", shares_to_buy, 0,
                                                     buy_charges_details, "Buy Signal"))]
             ELSE s
    ELSE [s EXCEPT !.missed_signals =
            Append(@, [Time |-> row.timestamp, Price |-> row.close,
                       Reason |-> "Insufficient Funds"])]

\* Lines 132-171.
BuyStep(s, row, cfg) ==
    IF ~row.Buy_Signal THEN s
    ELSE IF leveraged_buying_power(s, cfg) >= row.close
    THEN LET shares_to_buy == leveraged_buying_power(s, cfg) \div row.close
             buy_charges_details ==
                 calculate_transaction_charges(row.close, shares_to_buy, "BUY", cfg.charges_config)
             buy_cost == shares_to_buy * row.close + buy_charges_details.total
         IN  IF shares_to_buy > 0
             THEN [s EXCEPT
                     !.total_cost = @ + buy_cost,
                     !.free_cash = @ - allocated_margin(s, cfg),
                     !.daily_margin_used = @ + allocated_margin(s, cfg),
                     !.long_positions =
                         Append(@, [shares |-> shares_to_buy,
                                    price |-> row.close,
                                    buy_charges |-> buy_charges_details.total,
                                    margin_used |-> allocated_margin(s, cfg),
                                    target_price |->
                                        Pct(row.close, 100 + cfg.target_profit_percentage),
                                    trailing_stop_loss |->
                                        row.close - row.ATR * cfg.atr_multiplier]),
                     !.trades = Append(@, TradeEvent(row, "Buy", shares_to_buy, 0,
                                                     buy_charges_details, "Buy Signal"))]
             ELSE s
    ELSE [s EXCEPT !.missed_signals =
            Append(@, [Time |-> row.timestamp, Price |-> row.close,
                       Reason |-> "Insufficient Funds"])]

\* ------------------------------------------------------------------ exits
\* Mutant: the target check tried before the sell signal.
ExitReason_TargetFirst(position, row) ==
    IF row.close >= position.target_price THEN "Target Profit Reached"
    ELSE IF row.Sell_Signal THEN "Sell Signal Triggered"
    ELSE IF row.close <= position.trailing_stop_loss THEN "Trailing Stop-Loss Triggered"
    ELSE IF row.timestamp >= square_off_time(row.timestamp)
         THEN "Square Off Before Market Close"
    ELSE "None"

\* Lines 176-184; "None" stands for None.
ExitReason(position, row) ==
    IF row.Sell_Signal THEN "Sell Signal Triggered"
    ELSE IF row.close >= position.target_price THEN "Target Profit Reached"
    ELSE IF row.close <= position.trailing_stop_loss THEN "Trailing Stop-Loss Triggered"
    ELSE IF row.timestamp >= square_off_time(row.timestamp)
         THEN "Square Off Before Market Close"
    ELSE "None"

\* Mutant: an exit that credits capital with the sale proceeds.
SellPosition_CapitalGetsRevenue(s, position, row, cfg, reason) ==
    LET shares_to_sell == position.shares
        sell_charges_details ==
            calculate_transaction_charges(row.close, shares_to_sell, "SELL", cfg.charges_config)
        sell_revenue == shares_to_sell * row.close - sell_charges_details.total
        cost == shares_to_sell * position.price + position.buy_charges
        profit_loss == sell_revenue - cost
    IN  [s EXCEPT
            !.total_profit_loss = @ + profit_loss,
            !.daily_profit_loss = @ + profit_loss,
            !.total_revenue = @ + sell_revenue,
            !.capital = @ + sell_revenue,
            !.free_cash = @ + position.margin_used + sell_revenue,
            !.trades = Append(@, TradeEvent(row, "Sell", shares_to_sell, profit_loss,
                                            sell_charges_details, reason)),
            !.long_positions = RemoveFirst(@, position)]

\* Mutant: a sale that does not give the margin back to free cash.
SellPosition_KeepsMargin(s, position, row, cfg, reason) ==
    LET shares_to_sell == position.shares
        sell_charges_details ==
            calculate_transaction_charges(row.close, shares_to_sell, "SELL", cfg.charges_config)
        sell_revenue == shares_to_sell * row.close - sell_charges_details.total
        cost == shares_to_sell * position.price + position.buy_charges
        profit_loss == sell_revenue - cost
    IN  [s EXCEPT
            !.total_profit_loss = @ + profit_loss,
            !.daily_profit_loss = @ + profit_loss,
            !.total_revenue = @ + sell_revenue,
            !.capital = @ + profit_loss,
            !.free_cash = @ + sell_revenue,
            !.trades = Append(@, TradeEvent(row, "Sell", shares_to_sell, profit_loss,
                                            sell_charges_details, reason)),
            !.long_positions = RemoveFirst(@, position)]

\* Lines 186-214 for one position.
SellPosition(s, position, row, cfg, reason) ==
    LET shares_to_sell == position.shares
        sell_charges_details ==
            calculate_transaction_charges(row.close, shares_to_sell, "SELL", cfg.charges_config)
        sell_revenue == shares_to_sell * row.close - sell_charges_details.total
        cost == shares_to_sell * position.price + position.buy_charges
        profit_loss == sell_revenue - cost
    IN  [s EXCEPT
            !.total_profit_loss = @ + profit_loss,
            !.daily_profit_loss = @ + profit_loss,
            !.total_revenue = @ + sell_revenue,
            !.capital = @ + profit_loss,
            !.free_cash = @ + position.margin_used + sell_revenue,
            !.trades = Append(@, TradeEvent(row, "Sell", shares_to_sell, profit_loss,
                                            sell_charges_details, reason)),
            !.long_positions = RemoveFirst(@, position)]

\* Mutant: the loop run over the live ledger, where a removal shifts the
\* remaining positions and the one after the removed position is passed over.
RECURSIVE ExitLoop_OverLiveLedger(_, _, _, _)
ExitLoop_OverLiveLedger(s, snapshot, row, cfg) ==
    IF snapshot = <<>> THEN s
    ELSE LET position == Head(snapshot)
             reason == ExitReason(position, row)
         IN  IF reason # "None"
             THEN ExitLoop_OverLiveLedger(SellPosition(s, position, row, cfg, reason),
                                          IF Len(snapshot) >= 2 THEN Tail(Tail(snapshot))
                                          ELSE <<>>,
                                          row, cfg)
             ELSE ExitLoop_OverLiveLedger(s, Tail(snapshot), row, cfg)

RECURSIVE ExitLoop(_, _, _, _)
ExitLoop(s, snapshot, row, cfg) ==
    IF snapshot = <<>> THEN s
    ELSE LET position == Head(snapshot)
             reason == ExitReason(position, row)
         IN  ExitLoop(IF reason # "None" THEN SellPosition(s, position, row, cfg, reason) ELSE s,
                      Tail(snapshot), row, cfg)

ExitStep(s, row, cfg) ==
    IF s.long_positions # <<>> THEN ExitLoop(s, s.long_positions, row, cfg) ELSE s

\* ------------------------------------------------------------------ one row
\* The engine state when the row reaches the buy gate (line 125).
AtBuyGate(s, row, cfg) == NewDayStep(SquareOffStep(s, row, cfg), row)

\* Mutant: the exits evaluated before the buy, so that a position is never
\* evaluated on the bar that opened it.
ProcessRow_ExitsBeforeBuy(s, row, cfg) ==
    LET g == AtBuyGate(s, row, cfg)
    IN  IF BuyRestricted(row) THEN RestrictedStep(g, row)
        ELSE BuyStep(ExitStep(g, row, cfg), row, cfg)

\* The body of the for loop, lines 69-214.
ProcessRow(s, row, cfg) ==
    LET g == AtBuyGate(s, row, cfg)
    IN  IF BuyRestricted(row) THEN RestrictedStep(g, row)
        ELSE ExitStep(BuyStep(g, row, cfg), row, cfg)

\* ------------------------------------------------------------------ no authentication under way
\* os.getenv of a variable that is not set; the None that load_tokens returns;
\* and a token file that does not exist.
Unset == "None"
NoTokens == [present |-> FALSE, jwtToken |-> <<>>, refreshToken |-> <<>>]
MissingFile == [file |-> "missing", jwtToken |-> <<>>, refreshToken |-> <<>>]

\* get_auth_token has not been called.
AuthIdle ==
    /\ tokens_json = MissingFile
    /\ environ = [client_id |-> Unset, pin |-> Unset, totp_secret |-> Unset]
    /\ credentials = [client_id |-> Unset, pin |-> Unset, totp_secret |-> Unset]
    /\ auth_pc = "idle"
    /\ auth_handlers = <<>>
    /\ auth_trace = <<>>
    /\ auth_result = [status |-> "none"]

\* An empty table, no fetch made.
CacheIdle ==
    /\ historical_data_db = {}
    /\ candle_calls = <<>>
    /\ fetch_results = <<>>

\* main outside its instrument loop.
BatchIdle ==
    /\ main_pc = "idle"
    /\ token_index = 0
    /\ summary_file = [written |-> FALSE]

IdleIO == AuthIdle /\ CacheIdle /\ BatchIdle

\* ------------------------------------------------------------------ actions
\* Lines 50-61: the locals before the first row.
InitLocals ==
    /\ data = <<>>
    /\ pc = "loop"
    /\ capital = config.initial_capital
    /\ free_cash = config.initial_capital
    /\ total_profit_loss = 0
    /\ total_revenue = 0
    /\ total_cost = 0
    /\ trades = <<>>
    /\ missed_signals = <<>>
    /\ daily_summary = <<>>
    /\ long_positions = <<>>
    /\ current_day = 0
    /\ start_of_day_capital = 0
    /\ daily_margin_used = 0
    /\ daily_profit_loss = 0
    /\ final_summary = [returned |-> FALSE]
    /\ charges_calls = <<>>
    /\ summary_data = <<>>
    /\ runs = <<>>

Init ==
    /\ config \in Configs
    /\ InitLocals
    /\ IdleIO

\* The rows that may follow the rows iterated so far: timestamps strictly increase.
NextRows ==
    {r \in Rows : data = <<>> \/ r.timestamp > Last(data).timestamp}

\* One iteration of the for loop over `data`.
ProcessBar(row) ==
    /\ pc = "loop"
    /\ Len(data) < MaxBars
    /\ \E n \in {ProcessRow(EngineState, row, config)} :
           /\ capital' = n.capital
           /\ free_cash' = n.free_cash
           /\ total_profit_loss' = n.total_profit_loss
           /\ total_revenue' = n.total_revenue
           /\ total_cost' = n.total_cost
           /\ trades' = n.trades
           /\ missed_signals' = n.missed_signals
           /\ daily_summary' = n.daily_summary
           /\ long_positions' = n.long_positions
           /\ current_day' = n.current_day
           /\ start_of_day_capital' = n.start_of_day_capital
           /\ daily_margin_used' = n.daily_margin_used
           /\ daily_profit_loss' = n.daily_profit_loss
    /\ data' = Append(data, row)
    /\ UNCHANGED <<config, pc, final_summary, charges_calls, summary_data, runs, ioVars>>

\* Lines 216-259: the end of the data.
Finish ==
    /\ pc = "loop"
    /\ pc' = "done"
    /\ daily_summary' =
        IF current_day # 0
        THEN Append(daily_summary, [Date |-> current_day,
                                    StartOfDayCapital |-> start_of_day_capital,
                                    EndOfDayCapital |-> capital])
        ELSE daily_summary
    /\ final_summary' =
        [returned |-> TRUE,
         FinalCapital |-> config.initial_capital + total_profit_loss,
         TotalProfitLoss |-> total_profit_loss,
         TotalRevenue |-> total_revenue,
         TotalCost |-> total_cost,
         InitialCapital |-> config.initial_capital,
         CurrentStockHolding |-> SumSeq([i \in 1..Len(long_positions) |-> long_positions[i].shares]),
         LeverageUsed |-> config.leverage]
    /\ UNCHANGED <<config, data, capital, free_cash, total_profit_loss, total_revenue,
                   total_cost, trades, missed_signals, long_positions, current_day,
                   start_of_day_capital, daily_margin_used, daily_profit_loss,
                   charges_calls, summary_data, runs, ioVars>>

Next ==
    \/ \E row \in NextRows : ProcessBar(row)
    \/ Finish

Spec == Init /\ [][Next]_vars

\* ------------------------------------------------------------------ the charges function alone
\* calculate_transaction_charges called directly, outside a simulation.
InitCharges ==
    /\ Init
    /\ config = TradeConfig(1, 1, 1, ZeroCharges)

\* One call; the arguments and the returned breakdown are recorded.
ChargesCall(price, quantity, transaction_type, charges_config) ==
    /\ Len(charges_calls) < MaxCalls
    /\ charges_calls' =
          Append(charges_calls,
                 [price |-> price, quantity |-> quantity,
                  transaction_type |-> transaction_type,
                  charges_config |-> charges_config,
                  result |-> calculate_transaction_charges(price, quantity,
                                                           transaction_type, charges_config)])
    /\ UNCHANGED <<config, data, pc, capital, free_cash, total_profit_loss, total_revenue,
                   total_cost, trades, missed_signals, daily_summary, long_positions,
                   current_day, start_of_day_capital, daily_margin_used, daily_profit_loss,
                   final_summary, summary_data, runs, ioVars>>

NextCharges ==
    \E price \in ChargePrices, quantity \in ChargeQuantities,
       transaction_type \in TransactionTypes, charges_config \in ChargeConfigs :
        ChargesCall(price, quantity, transaction_type, charges_config)

SpecCharges == InitCharges /\ [][NextCharges]_vars

\* ------------------------------------------------------------------ incomplete configurations
\* config.json files without a CHARGES section, and with a CHARGES section
\* whose SELL side lacks the GST rate.
RawConfigs ==
    { [TRADE_CONFIG |-> "given"],
      [TRADE_CONFIG |-> "given",
       CHARGES |-> [BUY |-> TenRates,
                    SELL |-> [BROKERAGE |-> 10, STT |-> 10, TRANSACTION |-> 10,
                              SEBI |-> 10]]] }

\* config.py lines 23-27: a missing CHARGES section becomes an empty dictionary.
load_config(raw) ==
    [CHARGES |-> IF "CHARGES" \in DOMAIN raw THEN raw.CHARGES ELSE <<>>]

\* The keys lines 12-17 look up for one side.
RateKeys(transaction_type) ==
    {"BROKERAGE", "STT", "TRANSACTION", "SEBI", "GST"}
    \cup (IF transaction_type = "BUY" THEN {"STAMP"} ELSE {})

\* calculate_transaction_charges raises KeyError for this side.
ChargesKeyError(transaction_type, charges_config) ==
    \/ transaction_type \notin DOMAIN charges_config
    \/ \E key \in RateKeys(transaction_type) :
          key \notin DOMAIN charges_config[transaction_type]

\* The call of calculate_transaction_charges at which the row raises, if any:
\* the first position of the square-off loop (line 82), the buy (line 139),
\* or the first position of the exit loop that has a reason (line 188).
RaisePoint(s, row, cfg) ==
    IF /\ row.timestamp >= square_off_time(row.timestamp)
       /\ s.long_positions # <<>>
       /\ ChargesKeyError("SELL", cfg.charges_config)
    THEN "SquareOff"
    ELSE LET g == AtBuyGate(s, row, cfg)
         IN  IF BuyRestricted(row) THEN "None"
             ELSE IF /\ row.Buy_Signal
                     /\ leveraged_buying_power(g, cfg) >= row.close
                     /\ leveraged_buying_power(g, cfg) \div row.close > 0
                     /\ ChargesKeyError("BUY", cfg.charges_config)
             THEN "Buy"
             ELSE IF /\ ChargesKeyError("SELL", cfg.charges_config)
                     /\ \E i \in 1..Len(BuyStep(g, row, cfg).long_positions) :
                           ExitReason(BuyStep(g, row, cfg).long_positions[i], row) # "None"
             THEN "Exit"
             ELSE "None"

\* The locals when the KeyError leaves simulate_trades: each call precedes the
\* assignments of its block, and the steps before the block have run.
RaisedState(s, row, cfg) ==
    IF RaisePoint(s, row, cfg) = "SquareOff" THEN s
    ELSE IF RaisePoint(s, row, cfg) = "Buy" THEN AtBuyGate(s, row, cfg)
    ELSE BuyStep(AtBuyGate(s, row, cfg), row, cfg)

InitConfig ==
    /\ config \in {TradeConfig(1, 1, 1, load_config(raw).CHARGES) : raw \in RawConfigs}
    /\ InitLocals
    /\ IdleIO

\* A row that makes no failing charge lookup.
ProcessBarLoaded(row) ==
    /\ RaisePoint(EngineState, row, config) = "None"
    /\ ProcessBar(row)

\* A row whose charge lookup raises KeyError: simulate_trades is left without a result.
RaiseKeyError(row) ==
    /\ pc = "loop"
    /\ Len(data) < MaxBars
    /\ RaisePoint(EngineState, row, config) # "None"
    /\ pc' = "raised"
    /\ \E n \in {RaisedState(EngineState, row, config)} :
           /\ capital' = n.capital
           /\ free_cash' = n.free_cash
           /\ total_profit_loss' = n.total_profit_loss
           /\ total_revenue' = n.total_revenue
           /\ total_cost' = n.total_cost
           /\ trades' = n.trades
           /\ missed_signals' = n.missed_signals
           /\ daily_summary' = n.daily_summary
           /\ long_positions' = n.long_positions
           /\ current_day' = n.current_day
           /\ start_of_day_capital' = n.start_of_day_capital
           /\ daily_margin_used' = n.daily_margin_used
           /\ daily_profit_loss' = n.daily_profit_loss
    /\ data' = Append(data, row)
    /\ UNCHANGED <<config, final_summary, charges_calls, summary_data, runs, ioVars>>

NextConfig ==
    \/ \E row \in NextRows : ProcessBarLoaded(row)
    \/ \E row \in NextRows : RaiseKeyError(row)
    \/ Finish

SpecConfig == InitConfig /\ [][NextConfig]_vars

\* ------------------------------------------------------------------ rows as the caller may pass them
\* simulate_trades reads close and ATR of each row as they are (lines 70, 152):
\* rows of one day with a negative close or a zero ATR among them.  (A close of
\* exactly 0 on a funded buy raises ZeroDivisionError at line 137 and is left out.)
DataTimestamps == {1440 + 560, 1440 + 565, 1440 + 900}
DataCloses == {8 * Unit, 0 - 8 * Unit}
DataATRs == {4 * Unit, 0}
DataRows ==
    [timestamp : DataTimestamps, close : DataCloses, ATR : DataATRs,
     Buy_Signal : BOOLEAN, Sell_Signal : BOOLEAN]

NextDataRows ==
    {r \in DataRows : data = <<>> \/ r.timestamp > Last(data).timestamp}

NextData ==
    \/ \E row \in NextDataRows : ProcessBar(row)
    \/ Finish

SpecData == Init /\ [][NextData]_vars

\* The loop iterates the rows in the order given (line 68), whatever their
\* timestamps: rows of two days in any order, repeated timestamps included.
OrderTimestamps == {1440 + 560, 1440 + 565, 2 * 1440 + 560}
OrderRows ==
    [timestamp : OrderTimestamps, close : Closes, ATR : ATRs,
     Buy_Signal : BOOLEAN, Sell_Signal : BOOLEAN]

NextOrder ==
    \/ \E row \in OrderRows : ProcessBar(row)
    \/ Finish

SpecOrder == Init /\ [][NextOrder]_vars

\* Rows of one day whose closes (8, 10, 12 with an ATR of 4) let a bar meet the
\* target or the stop of one open position and of no other.
LedgerTimestamps == {1440 + 560, 1440 + 565, 1440 + 570, 1440 + 575, 1440 + 900}
LedgerCloses == {8 * Unit, 10 * Unit, 12 * Unit}
LedgerRows ==
    [timestamp : LedgerTimestamps, close : LedgerCloses, ATR : ATRs,
     Buy_Signal : BOOLEAN, Sell_Signal : BOOLEAN]

NextLedgerRows ==
    {r \in LedgerRows : data = <<>> \/ r.timestamp > Last(data).timestamp}

NextLedger ==
    \/ \E row \in NextLedgerRows : ProcessBar(row)
    \/ Finish

SpecLedger == Init /\ [][NextLedger]_vars

\* ------------------------------------------------------------------ the instrument loop of main
\* Rows of the instruments main simulates: 09:20, 09:25, 09:30 and 15:00 of
\* one day; a buy signal at 8 (before 15:00) or buy and sell signals at 12.
MainTimestamps == {1440 + 560, 1440 + 565, 1440 + 570, 1440 + 900}
MainRows ==
    {[timestamp |-> t, close |-> 8 * Unit, ATR |-> 4 * Unit,
      Buy_Signal |-> TRUE, Sell_Signal |-> FALSE] : t \in MainTimestamps \ {1440 + 900}}
    \cup {[timestamp |-> t, close |-> 12 * Unit, ATR |-> 4 * Unit,
           Buy_Signal |-> TRUE, Sell_Signal |-> TRUE] : t \in MainTimestamps}

NextMainRows ==
    {r \in MainRows : data = <<>> \/ r.timestamp > Last(data).timestamp}

\* round(x, 2) of x = n / d in hundredths: to the nearest, ties to even.
RoundHundredths(n, d) ==
    LET q == (n * 100) \div d
        r == (n * 100) % d
    IN  IF 2 * r < d THEN q
        ELSE IF 2 * r > d THEN q + 1
        ELSE IF q % 2 = 0 THEN q ELSE q + 1

\* Mutant: the win rate counts the Buy events among the trades.
win_rate_CountsBuys(log) ==
    LET wins == Len(SelectSeq(log, LAMBDA e : e.ProfitLoss > 0))
        total_trades == Len(log)
    IN  IF total_trades > 0 THEN RoundHundredths(wins * 100, total_trades) ELSE 0

\* main.py lines 125-128 and 134: 'Win Rate (%)', in hundredths of a percent.
win_rate(log) ==
    LET completed_trades == SelectSeq(log, LAMBDA e : e.Type \in {"Sell", "Square Off"})
        wins == Len(SelectSeq(completed_trades, LAMBDA e : e.ProfitLoss > 0))
        total_trades == Len(completed_trades)
    IN  IF total_trades > 0 THEN RoundHundredths(wins * 100, total_trades) ELSE 0

InitMain ==
    /\ config = TradeConfig(1, 2, 5, ZeroCharges)
    /\ InitLocals
    /\ IdleIO

\* main.py lines 124-135: the results of the call are reported.
Report ==
    /\ pc = "done"
    /\ pc' = "reported"
    /\ summary_data' =
          Append(summary_data, [ProfitLoss |-> final_summary.TotalProfitLoss,
                                WinRate |-> win_rate(trades)])
    /\ runs' =
          Append(runs, [data |-> data, trades |-> trades,
                        missed_signals |-> missed_signals,
                        daily_summary |-> daily_summary,
                        final_summary |-> final_summary])
    /\ UNCHANGED <<config, data, capital, free_cash, total_profit_loss, total_revenue,
                   total_cost, trades, missed_signals, daily_summary, long_positions,
                   current_day, start_of_day_capital, daily_margin_used, daily_profit_loss,
                   final_summary, charges_calls, ioVars>>

\* Mutant: the next call goes on from the capital of the one before.
NextToken_KeepsCapital ==
    /\ pc = "reported"
    /\ Len(summary_data) < MaxInstruments
    /\ pc' = "loop"
    /\ data' = <<>>
    /\ free_cash' = capital
    /\ total_profit_loss' = 0
    /\ total_revenue' = 0
    /\ total_cost' = 0
    /\ trades' = <<>>
    /\ missed_signals' = <<>>
    /\ daily_summary' = <<>>
    /\ long_positions' = <<>>
    /\ current_day' = 0
    /\ start_of_day_capital' = 0
    /\ daily_margin_used' = 0
    /\ daily_profit_loss' = 0
    /\ final_summary' = [returned |-> FALSE]
    /\ UNCHANGED <<config, capital, charges_calls, summary_data, runs, ioVars>>

\* main.py line 78 and simulator.py lines 50-61: the loop goes on to the next
\* token and calls simulate_trades, whose locals are initialised anew.
NextToken ==
    /\ pc = "reported"
    /\ Len(summary_data) < MaxInstruments
    /\ pc' = "loop"
    /\ data' = <<>>
    /\ capital' = config.initial_capital
    /\ free_cash' = config.initial_capital
    /\ total_profit_loss' = 0
    /\ total_revenue' = 0
    /\ total_cost' = 0
    /\ trades' = <<>>
    /\ missed_signals' = <<>>
    /\ daily_summary' = <<>>
    /\ long_positions' = <<>>
    /\ current_day' = 0
    /\ start_of_day_capital' = 0
    /\ daily_margin_used' = 0
    /\ daily_profit_loss' = 0
    /\ final_summary' = [returned |-> FALSE]
    /\ UNCHANGED <<config, charges_calls, summary_data, runs, ioVars>>

NextMain ==
    \/ \E row \in NextMainRows : ProcessBar(row)
    \/ Finish
    \/ Report
    \/ NextToken

SpecMain == InitMain /\ [][NextMain]_vars

\* ------------------------------------------------------------------ authentication (auth.py)
\* Tokens are sequences of parts, so that a 'Bearer ' prefix can be told from
\* the rest.  clean_token, lines 11-16: one 'Bearer ' prefix is removed.
clean_token(token) ==
    IF token # <<>> /\ Head(token) = "Bearer " THEN Tail(token) ELSE token

\* The token files get_auth_token may find: none, one that is not JSON, a
\* stored pair, and a file whose jwtToken is empty.
StoredTokens ==
    {MissingFile,
     [file |-> "corrupted", jwtToken |-> <<"jwt0">>, refreshToken |-> <<"refresh0">>],
     [file |-> "written", jwtToken |-> <<"jwt0">>, refreshToken |-> <<"refresh0">>],
     [file |-> "written", jwtToken |-> <<>>, refreshToken |-> <<"refresh0">>]}

\* The credentials main passes (main.py lines 47-52), and what the environment
\* may hold at the keys auth.py reads itself (lines 90-92, 98-100): nothing,
\* the same values, or other values.
CallerCredentials ==
    [client_id |-> "client", pin |-> "pin", totp_secret |-> "secret"]
Environments ==
    {[client_id |-> Unset, pin |-> Unset, totp_secret |-> Unset],
     CallerCredentials,
     [client_id |-> "other client", pin |-> "other pin", totp_secret |-> "other secret"]}

\* What a remote call may do: answer with status true, answer with status
\* false, or raise.
RemoteOutcomes == {"ok", "rejected", "raised"}

\* The token pairs the broker may issue, with and without the 'Bearer ' prefix.
IssuedByRefresh ==
    {[jwtToken |-> <<"Bearer ", "jwt1">>, refreshToken |-> <<"refresh1">>],
     [jwtToken |-> <<"jwt1">>, refreshToken |-> <<"refresh1">>]}
IssuedByLogin ==
    {[jwtToken |-> <<"Bearer ", "jwt2">>, refreshToken |-> <<"refresh2">>],
     [jwtToken |-> <<"jwt2">>, refreshToken |-> <<"refresh2">>]}

\* load_tokens, lines 30-41: the dictionary of the file, None for a missing
\* or corrupted file.
load_tokens(token_file) ==
    IF token_file.file = "written"
    THEN [present |-> TRUE, jwtToken |-> token_file.jwtToken,
          refreshToken |-> token_file.refreshToken]
    ELSE NoTokens

\* save_tokens, lines 21-24, when it succeeds: the file holds the dictionary.
save_tokens(tokens) ==
    [file |-> "written", jwtToken |-> tokens.jwtToken,
     refreshToken |-> tokens.refreshToken]

\* pyotp.TOTP(totp_secret).now(), lines 46-47: the code of the secret.
totp_now(totp_secret) == <<"otp", totp_secret>>

\* os.getenv at the three keys of lines 90-92 and 98-100.
getenv_credentials ==
    [client_id |-> environ.client_id, pin |-> environ.pin,
     totp_secret |-> environ.totp_secret]

\* The tokens dictionary of lines 56-59 and 78-81.
TokensOf(session_data) ==
    [present |-> TRUE,
     jwtToken |-> clean_token(session_data.jwtToken),
     refreshToken |-> session_data.refreshToken]

\* A return leaves get_auth_token through every enclosing try block.
AuthReturn(auth_token) ==
    /\ auth_pc' = "done"
    /\ auth_handlers' = <<>>
    /\ auth_result' = [status |-> "returned", token |-> auth_token]

\* initial_authentication raises AuthenticationError (line 68).  The innermost
\* enclosing try block catches it as an Exception: that of generate_new_token
\* (line 94) answers with another call of initial_authentication (line 96),
\* that of get_auth_token (line 125) with another call of generate_new_token
\* (line 127); with no try block around, the exception leaves get_auth_token.
AuthRaise ==
    IF auth_handlers = <<>>
    THEN /\ auth_pc' = "done"
         /\ auth_handlers' = <<>>
         /\ auth_result' = [status |-> "raised", exception |-> "AuthenticationError"]
    ELSE /\ auth_pc' = IF Last(auth_handlers) = "generate_new_token"
                       THEN "fallback login" ELSE "refresh"
         /\ auth_handlers' = SubSeq(auth_handlers, 1, Len(auth_handlers) - 1)
         /\ UNCHANGED auth_result

\* get_auth_token is called: the initial state of the authentication.
InitAuth ==
    /\ config = TradeConfig(1, 1, 1, ZeroCharges)
    /\ InitLocals
    /\ tokens_json \in StoredTokens
    /\ environ \in Environments
    /\ credentials = CallerCredentials
    /\ auth_pc = "called"
    /\ auth_handlers = <<>>
    /\ auth_trace = <<>>
    /\ auth_result = [status |-> "none"]
    /\ CacheIdle
    /\ BatchIdle

simVars ==
    <<config, data, pc, capital, free_cash, total_profit_loss, total_revenue,
      total_cost, trades, missed_signals, daily_summary, long_positions,
      current_day, start_of_day_capital, daily_margin_used, daily_profit_loss,
      final_summary, charges_calls, summary_data, runs>>

\* get_auth_token, lines 105-116: without usable stored tokens a full login
\* with the caller's credentials, otherwise the validation of the stored token.
GetAuthToken ==
    /\ auth_pc = "called"
    /\ LET tokens == load_tokens(tokens_json)
       IN  auth_pc' =
               IF ~tokens.present \/ tokens.jwtToken = <<>> \/ tokens.refreshToken = <<>>
               THEN "login"
               ELSE "validate"
    /\ UNCHANGED <<simVars, cacheVars, batchVars, tokens_json, environ, credentials, auth_handlers,
                   auth_trace, auth_result>>

\* get_auth_token, lines 117-127: getProfile; a valid token is returned as
\* stored.  On status false generate_new_token is called inside the try block
\* (line 124), on an exception from its handler (line 127).
ValidateToken ==
    /\ auth_pc = "validate"
    /\ \E outcome \in RemoteOutcomes :
          /\ auth_trace' =
                Append(auth_trace, [call |-> "getProfile", outcome |-> outcome,
                                    args |-> [refreshToken |->
                                                 load_tokens(tokens_json).refreshToken]])
          /\ IF outcome = "ok"
             THEN AuthReturn(load_tokens(tokens_json).jwtToken)
             ELSE /\ auth_pc' = "refresh"
                  /\ auth_handlers' =
                        IF outcome = "rejected" THEN <<"get_auth_token">> ELSE <<>>
                  /\ UNCHANGED auth_result
    /\ UNCHANGED <<simVars, cacheVars, batchVars, tokens_json, environ, credentials>>

\* generate_new_token, lines 72-101, up to its call of initial_authentication,
\* which is made with the credentials of the environment: inside the try block
\* on status false (line 88), from the handler (line 96) when generateToken or
\* save_tokens raised.  refresh_token is the argument, the stored refresh token.
GenerateNewToken ==
    /\ auth_pc = "refresh"
    /\ \E outcome \in RemoteOutcomes, session_data \in IssuedByRefresh, saved \in BOOLEAN :
          LET called == [call |-> "generateToken", outcome |-> outcome,
                         args |-> [refreshToken |-> load_tokens(tokens_json).refreshToken]]
              tokens == TokensOf(session_data)
              save == [call |-> "save_tokens",
                       outcome |-> IF saved THEN "ok" ELSE "raised",
                       args |-> tokens]
          IN  IF outcome = "ok"
              THEN /\ auth_trace' = auth_trace \o <<called, save>>
                   /\ IF saved
                      THEN /\ tokens_json' = save_tokens(tokens)
                           /\ AuthReturn(tokens.jwtToken)
                      ELSE /\ auth_pc' = "fallback login"
                           /\ UNCHANGED <<tokens_json, auth_handlers, auth_result>>
              ELSE /\ auth_trace' = Append(auth_trace, called)
                   /\ auth_pc' = "fallback login"
                   /\ auth_handlers' =
                         IF outcome = "rejected"
                         THEN Append(auth_handlers, "generate_new_token")
                         ELSE auth_handlers
                   /\ UNCHANGED <<tokens_json, auth_result>>
    /\ UNCHANGED <<simVars, cacheVars, batchVars, environ, credentials>>

\* initial_authentication, lines 45-68, called from get_auth_token with the
\* caller's credentials ("login") or from generate_new_token with those of the
\* environment ("fallback login").  Every exception of the try block, the
\* TokenError of save_tokens and the AuthenticationError of line 65 included,
\* is turned into AuthenticationError (line 68).
InitialAuthentication ==
    /\ auth_pc \in {"login", "fallback login"}
    /\ LET args == IF auth_pc = "login" THEN credentials ELSE getenv_credentials
       IN  IF args.totp_secret = Unset
           THEN /\ AuthRaise
                /\ UNCHANGED <<tokens_json, auth_trace>>
           ELSE \E outcome \in RemoteOutcomes, session_data \in IssuedByLogin,
                   saved \in BOOLEAN :
                    LET called == [call |-> "generateSession", outcome |-> outcome,
                                   args |-> [client_id |-> args.client_id,
                                             pin |-> args.pin,
                                             otp |-> totp_now(args.totp_secret)]]
                        tokens == TokensOf(session_data)
                        save == [call |-> "save_tokens",
                                 outcome |-> IF saved THEN "ok" ELSE "raised",
                                 args |-> tokens]
                    IN  IF outcome = "ok"
                        THEN /\ auth_trace' = auth_trace \o <<called, save>>
                             /\ IF saved
                                THEN /\ tokens_json' = save_tokens(tokens)
                                     /\ AuthReturn(tokens.jwtToken)
                                ELSE /\ AuthRaise
                                     /\ UNCHANGED tokens_json
                        ELSE /\ auth_trace' = Append(auth_trace, called)
                             /\ AuthRaise
                             /\ UNCHANGED tokens_json
    /\ UNCHANGED <<simVars, cacheVars, batchVars, environ, credentials>>

NextAuth ==
    \/ GetAuthToken
    \/ ValidateToken
    \/ GenerateNewToken
    \/ InitialAuthentication

SpecAuth == InitAuth /\ [][NextAuth]_vars

\* ------------------------------------------------------------------ the historical-data cache (data_fetcher.py)
\* Times are seconds; the candles of the remote service stand on whole minutes.
CandleTimes == {60, 120, 180}

\* The candles the remote service has for a token.
Candle(symboltoken, timestamp) ==
    [symboltoken |-> symboltoken, timestamp |-> timestamp, close |-> 8 * Unit]

\* The date ranges of HISTORICAL_DATA in the configuration: ranges that begin
\* and end on a candle, and ranges that reach beyond the candles.
FromDates == {30, 60}
ToDates == {180, 200}
Requests == [symboltoken : {1}, fromdate : FromDates, todate : ToDates]

\* What getCandleData may do: answer with status true and the candles, answer
\* with status false, or raise.
CandleAnswers == {"ok", "rejected", "raised"}

\* strftime("%Y-%m-%d %H:%M"), lines 141 and 154: the seconds are dropped.
strftime_minutes(t) == (t \div 60) * 60

\* obj.getCandleData(params) when it answers with status true: the candles of
\* the token in the range, both ends included.
getCandleData(symboltoken, fromdate, todate) ==
    {Candle(symboltoken, t) : t \in {u \in CandleTimes : fromdate <= u /\ u <= todate}}

\* load_data_from_db, lines 85-95: timestamp BETWEEN from_date AND to_date.
load_data_from_db(db, symboltoken, from_date, to_date) ==
    {b \in db : /\ b.symboltoken = symboltoken
                /\ from_date <= b.timestamp
                /\ b.timestamp <= to_date}

\* save_data_to_db, lines 55-82: the rows whose timestamp the table does not
\* hold yet for the token are inserted.
save_data_to_db(db, symboltoken, frame) ==
    LET existing_timestamps == {b.timestamp : b \in {c \in db : c.symboltoken = symboltoken}}
    IN  db \cup {b \in frame : b.timestamp \notin existing_timestamps}

\* sort_values(by='timestamp') of a frame without duplicate timestamps.
RECURSIVE sort_values(_)
sort_values(frame) ==
    IF frame = {} THEN <<>>
    ELSE LET first == CHOOSE b \in frame : \A c \in frame : b.timestamp <= c.timestamp
         IN  <<first>> \o sort_values(frame \ {first})

\* drop_duplicates(subset=['timestamp']) of the cached rows followed by the
\* fetched ones, line 184: of rows with one timestamp the cached one is kept.
drop_duplicates(cached_data, missing_data) ==
    cached_data \cup
        {b \in missing_data : \A c \in cached_data : c.timestamp # b.timestamp}

\* The remote calls fetch_historical_data_with_cache makes for a request,
\* lines 131-176, as the ranges asked for, in order: the complete range when
\* nothing is cached, else the range before the first cached row and the
\* range after the last one, each only if the request reaches beyond it.
RangesToFetch(cached_data, request) ==
    IF cached_data = {}
    THEN <<[fromdate |-> request.fromdate, todate |-> request.todate]>>
    ELSE LET cached_start ==
                 CHOOSE t \in {b.timestamp : b \in cached_data} :
                     \A b \in cached_data : t <= b.timestamp
             cached_end ==
                 CHOOSE t \in {b.timestamp : b \in cached_data} :
                     \A b \in cached_data : t >= b.timestamp
         IN  (IF request.fromdate < cached_start
              THEN <<[fromdate |-> request.fromdate,
                      todate |-> strftime_minutes(cached_start)]>>
              ELSE <<>>)
             \o (IF request.todate > cached_end
                 THEN <<[fromdate |-> strftime_minutes(cached_end),
                         todate |-> request.todate]>>
                 ELSE <<>>)

\* fetch_historical_data_with_cache, lines 99-189, for the answers the remote
\* calls give (in order) and a database write that succeeds or not: the frame
\* returned, the table afterwards and the remote calls made.  An exception
\* anywhere ends in the handler of line 187, which returns an empty frame;
\* save_data_to_db swallows its own exception (line 79).
fetch_historical_data_with_cache(db, request, answers, saved) ==
    LET cached_data ==
            load_data_from_db(db, request.symboltoken, request.fromdate, request.todate)
        ranges == RangesToFetch(cached_data, request)
        raising == {k \in 1..Len(ranges) : answers[k] = "raised"}
        made == IF raising = {} THEN Len(ranges)
                ELSE CHOOSE k \in raising : \A j \in raising : k <= j
        calls == [k \in 1..made |->
                    [symboltoken |-> request.symboltoken,
                     fromdate |-> ranges[k].fromdate,
                     todate |-> ranges[k].todate,
                     answer |-> answers[k]]]
        missing_data ==
            UNION {getCandleData(request.symboltoken, ranges[k].fromdate, ranges[k].todate) :
                       k \in {j \in 1..Len(ranges) : answers[j] = "ok"}}
    IN  IF raising # {}
        THEN [returned |-> "DataFrame", all_data |-> <<>>, db |-> db, calls |-> calls]
        ELSE [returned |-> "DataFrame",
              all_data |-> sort_values(drop_duplicates(cached_data, missing_data)),
              db |-> IF missing_data # {} /\ saved
                     THEN save_data_to_db(db, request.symboltoken, missing_data)
                     ELSE db,
              calls |-> calls]

InitCache ==
    /\ config = TradeConfig(1, 1, 1, ZeroCharges)
    /\ InitLocals
    /\ AuthIdle
    /\ CacheIdle
    /\ BatchIdle

\* One call of fetch_historical_data_with_cache.
FetchHistoricalData(request) ==
    /\ Len(fetch_results) < MaxCalls
    /\ \E answers \in [1..2 -> CandleAnswers], saved \in BOOLEAN :
          LET fetched == fetch_historical_data_with_cache(historical_data_db, request,
                                                          answers, saved)
          IN  /\ historical_data_db' = fetched.db
              /\ candle_calls' = candle_calls \o fetched.calls
              /\ fetch_results' =
                    Append(fetch_results,
                           [request |-> request,
                            all_data |-> fetched.all_data,
                            calls |-> fetched.calls,
                            stored |-> /\ fetched.calls # <<>>
                                       /\ \A k \in 1..Len(fetched.calls) :
                                             fetched.calls[k].answer = "ok"
                                       /\ fetched.all_data # <<>>
                                       /\ fetched.db # historical_data_db])
    /\ UNCHANGED <<simVars, authVars, batchVars>>

NextCache == \E request \in Requests : FetchHistoricalData(request)

SpecCache == InitCache /\ [][NextCache]_vars

\* ------------------------------------------------------------------ the batch of main (main.py lines 64-149)
\* HISTORICAL_DATA of the configuration with the token of the loop, line 82.
HistoricalDataConfig(token) == [symboltoken |-> token, fromdate |-> 60, todate |-> 180]

InitBatch ==
    /\ config = TradeConfig(1, 2, 5, ZeroCharges)
    /\ InitLocals
    /\ AuthIdle
    /\ CacheIdle
    /\ main_pc = "fetch"
    /\ token_index = 1
    /\ summary_file = [written |-> FALSE]

\* main.py lines 78-96 for one token: the data is fetched, the token is skipped
\* if the fetch returned None, and indicators and signals are computed.  Of
\* an empty frame calculate_indicators and generate_signals return the frame
\* as it is (indicators.py line 8, signals.py line 10), simulate_trades runs
\* over no row, and line 111 then reads the column Buy_Signal the frame does
\* not have: the KeyError leaves main.  The indicator and signal columns of a
\* frame with bars are not computed here; the rows simulate_trades is given
\* are drawn from MainRows.
FetchForToken ==
    /\ main_pc = "fetch"
    /\ \E answers \in [1..2 -> CandleAnswers], saved \in BOOLEAN :
          LET fetched == fetch_historical_data_with_cache(
                             historical_data_db, HistoricalDataConfig(token_index),
                             answers, saved)
          IN  /\ historical_data_db' = fetched.db
              /\ candle_calls' = candle_calls \o fetched.calls
              /\ fetch_results' =
                    Append(fetch_results,
                           [request |-> HistoricalDataConfig(token_index),
                            all_data |-> fetched.all_data,
                            calls |-> fetched.calls,
                            stored |-> fetched.db # historical_data_db])
              /\ IF fetched.returned = "None"
                 THEN /\ main_pc' = IF token_index < MaxInstruments
                                    THEN "fetch" ELSE "end of loop"
                      /\ token_index' = IF token_index < MaxInstruments
                                        THEN token_index + 1 ELSE token_index
                 ELSE /\ main_pc' = IF fetched.all_data = <<>>
                                    THEN "KeyError" ELSE "simulate"
                      /\ UNCHANGED token_index
    /\ UNCHANGED <<simVars, authVars, summary_file>>

\* simulate_trades for the token, main.py lines 98-108.
SimulateBar(row) == main_pc = "simulate" /\ ProcessBar(row)

SimulateFinish == main_pc = "simulate" /\ Finish

\* main.py lines 110-135 for a frame with bars.
ReportToken == main_pc = "simulate" /\ Report

\* main.py line 78: the loop goes on to the next token.
NextInstrument ==
    /\ main_pc = "simulate"
    /\ pc = "reported"
    /\ token_index < MaxInstruments
    /\ main_pc' = "fetch"
    /\ token_index' = token_index + 1
    /\ pc' = "loop"
    /\ data' = <<>>
    /\ capital' = config.initial_capital
    /\ free_cash' = config.initial_capital
    /\ total_profit_loss' = 0
    /\ total_revenue' = 0
    /\ total_cost' = 0
    /\ trades' = <<>>
    /\ missed_signals' = <<>>
    /\ daily_summary' = <<>>
    /\ long_positions' = <<>>
    /\ current_day' = 0
    /\ start_of_day_capital' = 0
    /\ daily_margin_used' = 0
    /\ daily_profit_loss' = 0
    /\ final_summary' = [returned |-> FALSE]
    /\ UNCHANGED <<config, charges_calls, summary_data, runs, authVars, cacheVars,
                   summary_file>>

\* main.py lines 138-149: after the last token the summary is saved.
SaveSummary ==
    /\ IF main_pc = "simulate"
       THEN pc = "reported" /\ token_index = MaxInstruments
       ELSE main_pc = "end of loop"
    /\ main_pc' = "saved"
    /\ summary_file' = [written |-> TRUE, summary_data |-> summary_data]
    /\ UNCHANGED <<simVars, authVars, cacheVars, token_index>>

NextBatch ==
    \/ FetchForToken
    \/ \E row \in NextMainRows : SimulateBar(row)
    \/ SimulateFinish
    \/ ReportToken
    \/ NextInstrument
    \/ SaveSummary

SpecBatch == InitBatch /\ [][NextBatch]_vars

\* ------------------------------------------------------------------ log helpers
ExitTypes == {"Sell", "Square Off"}

MinuteOfDay(timestamp) == timestamp % 1440

BuyIndices == {i \in 1..Len(trades) : trades[i].Type = "Buy"}
ExitIndices == {i \in 1..Len(trades) : trades[i].Type \in ExitTypes}

\* Shares summed over the events of `trades` at the indices of S.
RECURSIVE SharesOver(_)
SharesOver(S) ==
    IF S = {} THEN 0
    ELSE LET i == CHOOSE x \in S : TRUE IN trades[i].Shares + SharesOver(S \ {i})

\* Among the first k trade events: Buys, and exits, of exactly n shares.
BuysOf(n, k) == Cardinality({i \in BuyIndices : i <= k /\ trades[i].Shares = n})
ExitsOf(n, k) == Cardinality({i \in ExitIndices : i <= k /\ trades[i].Shares = n})
HeldOf(n) == Cardinality({i \in 1..Len(long_positions) : long_positions[i].shares = n})

\* ------------------------------------------------------------------ claims

\* C1: after every bar, capital equals initial_capital plus the cumulative
\* total_profit_loss, and the returned 'Final Capital' equals
\* 'Initial Capital' + 'Total Profit/Loss'.
C1_CapitalIsInitialPlusProfitLoss ==
    /\ capital = config.initial_capital + total_profit_loss
    /\ pc = "done" =>
          final_summary.FinalCapital =
              final_summary.InitialCapital + final_summary.TotalProfitLoss

\* C1 witness: a finished run that realized a profit or loss on a Sell and on
\* a Square Off.
C1_Witness ==
    /\ pc = "done"
    /\ total_profit_loss # 0
    /\ \E i, j \in ExitIndices : trades[i].Type = "Sell" /\ trades[j].Type = "Square Off"

\* C2 (as claimed): free_cash is never negative after a bar.
C2_FreeCashNonNegative == free_cash >= 0

\* C3: no Buy event carries a timestamp at or after 14:30 of its day.
C3_NoBuyAtOrAfterDeadline ==
    \A i \in BuyIndices : MinuteOfDay(trades[i].Time) < 14 * 60 + 30

\* C3 witness: a row with Buy_Signal at or after 14:30 was processed while
\* free cash sufficed for a buy, in a run that did buy earlier.
C3_Witness ==
    /\ BuyIndices # {}
    /\ data # <<>>
    /\ Last(data).Buy_Signal
    /\ MinuteOfDay(Last(data).timestamp) >= 14 * 60 + 30
    /\ leveraged_buying_power(EngineState, config) >= Last(data).close

\* C4: once a bar at or after 15:00 of its day has been processed, the
\* position ledger is empty.
C4_LedgerEmptyAfterSquareOffBar ==
    (data # <<>> /\ MinuteOfDay(Last(data).timestamp) >= 15 * 60) => long_positions = <<>>

\* C4 witness: the last bar is at or after 15:00 and squared off a position
\* bought on the previous day and one bought on the same day.
C4_Witness ==
    /\ data # <<>>
    /\ MinuteOfDay(Last(data).timestamp) >= 15 * 60
    /\ \E b1, b2 \in BuyIndices :
          /\ trade_day(trades[b1].Time) < trade_day(Last(data).timestamp)
          /\ trade_day(trades[b2].Time) = trade_day(Last(data).timestamp)
    /\ Cardinality({i \in ExitIndices : trades[i].Time = Last(data).timestamp}) = 2

\* C5: every Sell / Square Off event closes one position opened by an earlier
\* Buy event of the same share count, no position exits twice (in every prefix
\* of the log the exits of n shares never outnumber the Buys of n shares, and
\* the Buys not yet exited are exactly the open positions), and at the end of
\* a run the shares bought equal the shares sold plus 'Current Stock Holding'.
C5_ExitsMatchEarlierBuys ==
    LET counts == {trades[i].Shares : i \in 1..Len(trades)}
                      \cup {long_positions[i].shares : i \in 1..Len(long_positions)}
    IN  /\ \A n \in counts :
              /\ \A k \in 1..Len(trades) : ExitsOf(n, k) <= BuysOf(n, k)
              /\ BuysOf(n, Len(trades)) - ExitsOf(n, Len(trades)) = HeldOf(n)
        /\ pc = "done" =>
              SharesOver(BuyIndices) =
                  SharesOver(ExitIndices) + final_summary.CurrentStockHolding

\* C5 witness: a finished run with two Buys, one exit and shares still held.
C5_Witness ==
    /\ pc = "done"
    /\ Cardinality(BuyIndices) >= 2
    /\ ExitIndices # {}
    /\ final_summary.CurrentStockHolding > 0

\* ------------------------------------------------------------------ step helpers
\* Sum of margin_used over a ledger.
RECURSIVE ReservedMargin(_)
ReservedMargin(positions) ==
    IF positions = <<>> THEN 0
    ELSE Head(positions).margin_used + ReservedMargin(Tail(positions))

\* Net sale proceeds (shares x price - sell charges) summed over the events
\* of the log `log` at the indices of S.
RECURSIVE ProceedsOver(_, _)
ProceedsOver(log, S) ==
    IF S = {} THEN 0
    ELSE LET i == CHOOSE x \in S : TRUE
         IN  log[i].Shares * log[i].Price - log[i].Charges + ProceedsOver(log, S \ {i})

\* C6 (as claimed): a position's margin leaves free_cash at its Buy and comes
\* back at its exit together with the net sale proceeds, and stays out of
\* free_cash in between, also across a day rollover.  Per processed bar:
\* free_cash plus the margin reserved by the open positions changes by the net
\* proceeds of the bar's exits only; on a bar that starts a new day it restarts
\* from the day's starting capital (plus the proceeds of the Sells that follow
\* the rollover in that bar).
C6_MarginOutOfFreeCashUntilExit ==
    [][data' # data =>
        LET new == (Len(trades) + 1)..Len(trades')
            exits == {i \in new : trades'[i].Type \in ExitTypes}
            sells == {i \in new : trades'[i].Type = "Sell"}
        IN  IF current_day' # current_day
            THEN free_cash' + ReservedMargin(long_positions') =
                     start_of_day_capital' + ProceedsOver(trades', sells)
            ELSE free_cash' + ReservedMargin(long_positions') =
                     free_cash + ReservedMargin(long_positions) + ProceedsOver(trades', exits)
      ]_vars

\* C7 (as claimed): after every bar free_cash is capital minus the margin
\* reserved by the open positions, so free_cash never exceeds capital.
C7_FreeCashIsUnreservedCapital ==
    /\ free_cash = capital - ReservedMargin(long_positions)
    /\ free_cash <= capital

\* Scenario A on the rows iterated so far: row k carries the only signal of the
\* run, a buy signal before 14:30 that free cash can fund; rows k+1..m-1 are
\* before 15:00 and stay strictly between the position's trailing stop and
\* target; row m is the first row at or after 15:00, on the day of row k.
ScenarioA(k, m) ==
    LET buy == data[k]
        target == Pct(buy.close, 100 + config.target_profit_percentage)
        stop == buy.close - buy.ATR * config.atr_multiplier
    IN  /\ buy.Buy_Signal /\ ~buy.Sell_Signal /\ buy.ATR > 0
        /\ \A i \in (1..Len(data)) \ {k} : ~data[i].Buy_Signal /\ ~data[i].Sell_Signal
        /\ MinuteOfDay(buy.timestamp) < 14 * 60 + 30
        /\ config.initial_capital * config.trade_allocation.num * config.leverage
               >= buy.close * config.trade_allocation.den
        /\ \A i \in (k + 1)..(m - 1) :
              /\ MinuteOfDay(data[i].timestamp) < 15 * 60
              /\ data[i].close < target
              /\ data[i].close > stop
        /\ MinuteOfDay(data[m].timestamp) >= 15 * 60
        /\ trade_day(data[m].timestamp) = trade_day(buy.timestamp)

\* C8: in Scenario A the trade log is exactly one Buy at row k followed by one
\* Square Off at row m's close, with reason 'Square Off Before Market Close'
\* and profit/loss = shares x (exit price - entry price) - buy charges - sell
\* charges.
C8_ScenarioA_BuyThenSquareOff ==
    \A k \in 1..Len(data) : \A m \in (k + 1)..Len(data) :
        ScenarioA(k, m) =>
            /\ Len(trades) = 2
            /\ trades[1].Type = "Buy"
            /\ trades[1].Time = data[k].timestamp
            /\ trades[1].Price = data[k].close
            /\ trades[2].Type = "Square Off"
            /\ trades[2].Reason = "Square Off Before Market Close"
            /\ trades[2].Time = data[m].timestamp
            /\ trades[2].Price = data[m].close
            /\ trades[2].Shares = trades[1].Shares
            /\ trades[2].ProfitLoss =
                   trades[1].Shares * (trades[2].Price - trades[1].Price)
                       - trades[1].Charges - trades[2].Charges

\* C8 witness: Scenario A with a quiet row between the buy and the square-off,
\* under a configuration with charges, closed at a different price.
C8_Witness ==
    /\ Len(data) = 3
    /\ ScenarioA(1, 3)
    /\ config.charges_config = TenCharges
    /\ data[3].close # data[1].close

\* C9: a row with Buy_Signal at or after 14:30 of its day adds exactly one
\* missed signal, 'Buy restricted near market close', adds no Buy event and
\* opens no position.
C9_ScenarioB_BuyRestricted ==
    [][(data' # data /\ Last(data').Buy_Signal
          /\ MinuteOfDay(Last(data').timestamp) >= 14 * 60 + 30) =>
        /\ missed_signals' =
               Append(missed_signals,
                      [Time |-> Last(data').timestamp, Price |-> Last(data').close,
                       Reason |-> "Buy restricted near market close"])
        /\ \A i \in (Len(trades) + 1)..Len(trades') : trades'[i].Type # "Buy"
        /\ Len(long_positions') <= Len(long_positions)
        /\ \A j \in 1..Len(long_positions') :
              \E i \in 1..Len(long_positions) : long_positions'[j] = long_positions[i]
      ]_vars

\* C9 witness: the last row had Buy_Signal at 14:30 or later while free cash
\* could have funded a buy and a position was open; it was recorded as missed.
C9_Witness ==
    /\ data # <<>>
    /\ Last(data).Buy_Signal
    /\ MinuteOfDay(Last(data).timestamp) >= 14 * 60 + 30
    /\ long_positions # <<>>
    /\ free_cash * config.trade_allocation.num * config.leverage
           >= Last(data).close * config.trade_allocation.den
    /\ missed_signals # <<>>
    /\ Last(missed_signals).Time = Last(data).timestamp
    /\ Last(missed_signals).Reason = "Buy restricted near market close"

\* C10: a row with Buy_Signal before 14:30 of its day that meets
\* free_cash x trade_allocation x leverage < price at the entry step adds
\* exactly one missed signal, 'Insufficient Funds', adds no Buy event, creates
\* no position, and the entry step leaves free_cash unchanged (so a row with no
\* exit and no day change leaves free_cash as it was).
C10_ScenarioC_InsufficientFunds ==
    [][data' # data =>
        LET row == Last(data')
            g == AtBuyGate(EngineState, row, config)
        IN  (/\ row.Buy_Signal
             /\ MinuteOfDay(row.timestamp) < 14 * 60 + 30
             /\ g.free_cash * config.trade_allocation.num * config.leverage
                    < row.close * config.trade_allocation.den) =>
                /\ missed_signals' =
                       Append(missed_signals,
                              [Time |-> row.timestamp, Price |-> row.close,
                               Reason |-> "Insufficient Funds"])
                /\ \A i \in (Len(trades) + 1)..Len(trades') : trades'[i].Type # "Buy"
                /\ Len(long_positions') <= Len(long_positions)
                /\ \A j \in 1..Len(long_positions') :
                      \E i \in 1..Len(long_positions) : long_positions'[j] = long_positions[i]
                /\ BuyStep(g, row, config).free_cash = g.free_cash
                /\ (trades' = trades /\ current_day' = current_day) => free_cash' = free_cash
      ]_vars

\* C10 witness: the last row's buy signal, before 14:30, was missed for
\* insufficient funds while a position stayed open.
C10_Witness ==
    /\ data # <<>>
    /\ Last(data).Buy_Signal
    /\ MinuteOfDay(Last(data).timestamp) < 14 * 60 + 30
    /\ missed_signals # <<>>
    /\ Last(missed_signals).Time = Last(data).timestamp
    /\ Last(missed_signals).Reason = "Insufficient Funds"
    /\ long_positions # <<>>

\* ------------------------------------------------------------------ exit reasons
\* The trade events appended by the step, of one type, in log order.
NewEvents(type) ==
    SelectSeq(SubSeq(trades', Len(trades) + 1, Len(trades')), LAMBDA e : e.Type = type)

\* The priority list of the exit reasons as the specification words it, for a
\* position with the given target and stop on the bar `row`.
PriorityReason(row, target, stop) ==
    IF row.Sell_Signal THEN "Sell Signal Triggered"
    ELSE IF row.close >= target THEN "Target Profit Reached"
    ELSE IF row.close <= stop THEN "Trailing Stop-Loss Triggered"
    ELSE IF MinuteOfDay(row.timestamp) >= 900 THEN "Square Off Before Market Close"
    ELSE "None"

\* The positions the exit evaluation of the step meets, in ledger order: the
\* ledger left by the scheduled square-off, then the position of the step's Buy.
EvaluatedPositions ==
    LET row == Last(data')
        kept == IF MinuteOfDay(row.timestamp) >= 900 THEN <<>> ELSE long_positions
        bought == NewEvents("Buy")
    IN  [i \in 1..Len(kept) |->
            [shares |-> kept[i].shares, target |-> kept[i].target_price,
             stop |-> kept[i].trailing_stop_loss]]
        \o [i \in 1..Len(bought) |->
            [shares |-> bought[i].Shares,
             target |-> (bought[i].Price * (100 + config.target_profit_percentage)) \div 100,
             stop |-> bought[i].Price - row.ATR * config.atr_multiplier]]

\* The Sell events of the step are, in order, the evaluated positions that have
\* a reason, each with the highest-priority reason that holds for its position.
SellsFollowPriority ==
    LET row == Last(data')
        due == SelectSeq(EvaluatedPositions,
                         LAMBDA p : PriorityReason(row, p.target, p.stop) # "None")
        sells == NewEvents("Sell")
    IN  /\ Len(sells) = Len(due)
        /\ \A j \in 1..Len(sells) :
              /\ sells[j].Shares = due[j].shares
              /\ sells[j].Reason = PriorityReason(row, due[j].target, due[j].stop)

\* The Square Off events of the step carry the highest-priority reason that
\* holds for the positions they close (the ledger before the step, in order).
SquareOffsFollowPriority ==
    LET row == Last(data')
        offs == NewEvents("Square Off")
    IN  \A j \in 1..Len(offs) :
            /\ j <= Len(long_positions)
            /\ offs[j].Reason = PriorityReason(row, long_positions[j].target_price,
                                               long_positions[j].trailing_stop_loss)

\* The row of the step reaches the exit evaluation (it is not abandoned at the buy gate).
ReachesExitEvaluation ==
    ~(Last(data').Buy_Signal /\ MinuteOfDay(Last(data').timestamp) >= 870)

\* C11 (amended): every Sell event, the exit made by the per-position exit
\* evaluation, carries exactly the highest-priority reason that holds for its
\* position on that bar, in the order sell signal, target, trailing stop,
\* square-off deadline; on a bar that reaches the exit evaluation every position
\* with a matching reason is sold, so a target reached without sell signal
\* exits with 'Target Profit Reached'. Square Off events are outside the priority list.
C11_SellReasonsFollowPriority ==
    [][data' # data =>
        /\ ReachesExitEvaluation => SellsFollowPriority
        /\ ~ReachesExitEvaluation => NewEvents("Sell") = <<>>]_vars

\* C11 witness: Scenario D, a Sell with 'Target Profit Reached' on a bar
\* without sell signal.
C11_Witness ==
    \E i \in 1..Len(trades) :
        /\ trades[i].Type = "Sell"
        /\ trades[i].Reason = "Target Profit Reached"
        /\ \E k \in 1..Len(data) :
              data[k].timestamp = trades[i].Time /\ ~data[k].Sell_Signal

\* C11 as stated: every exit event, Sell or Square Off, carries the
\* highest-priority reason that holds for its position on that bar.
C11_AllExitReasonsFollowPriority ==
    [][data' # data =>
        /\ ReachesExitEvaluation => SellsFollowPriority
        /\ SquareOffsFollowPriority]_vars

\* ------------------------------------------------------------------ daily summary
\* The calendar days present in the rows iterated so far.
DaysInData == {data[k].timestamp \div 1440 : k \in 1..Len(data)}

\* C12: in the daily summary every snapshot's 'Start of Day Capital' equals the
\* previous snapshot's 'End of Day Capital', the first equals initial_capital
\* (the day still open continues the chain), and a finished run over two
\* consecutive trading days has exactly two snapshots.
C12_DailySummaryChains ==
    /\ \A i \in 2..Len(daily_summary) :
          daily_summary[i].StartOfDayCapital = daily_summary[i - 1].EndOfDayCapital
    /\ daily_summary # <<>> => daily_summary[1].StartOfDayCapital = config.initial_capital
    /\ (pc = "loop" /\ current_day # 0) =>
          start_of_day_capital =
              IF daily_summary = <<>> THEN config.initial_capital
              ELSE Last(daily_summary).EndOfDayCapital
    /\ (pc = "done" /\ \E d \in DaysInData : DaysInData = {d, d + 1}) =>
          Len(daily_summary) = 2

\* C12 witness: Scenario E, a finished two-day run with nothing held overnight
\* whose first day changed the capital.
C12_Witness ==
    /\ pc = "done"
    /\ Len(daily_summary) = 2
    /\ long_positions = <<>>
    /\ \A i \in 1..Len(trades) : trades[i].Time \div 1440 = daily_summary[1].Date
    /\ daily_summary[1].EndOfDayCapital # config.initial_capital
    /\ daily_summary[2].StartOfDayCapital = daily_summary[1].EndOfDayCapital

\* C13: at the end of a run over strictly increasing timestamps the daily
\* summary has exactly one snapshot per calendar day present in the bars, in
\* chronological order, the last with 'End of Day Capital' equal to
\* 'Final Capital'; an empty bar sequence yields no snapshot.
C13_OneSnapshotPerDay ==
    pc = "done" =>
        /\ Len(daily_summary) = Cardinality(DaysInData)
        /\ \A i \in 1..Len(daily_summary) : daily_summary[i].Date \in DaysInData
        /\ \A i, j \in 1..Len(daily_summary) :
              i < j => daily_summary[i].Date < daily_summary[j].Date
        /\ daily_summary # <<>> =>
              Last(daily_summary).EndOfDayCapital = final_summary.FinalCapital
        /\ data = <<>> => daily_summary = <<>>

\* C13 witness: a finished run of three bars over two days that traded on the
\* second day and ended with a capital other than the initial one.
C13_Witness ==
    /\ pc = "done"
    /\ Len(data) = 3
    /\ Cardinality(DaysInData) = 2
    /\ \E i \in 1..Len(trades) : trades[i].Time \div 1440 = daily_summary[2].Date
    /\ final_summary.FinalCapital # config.initial_capital
    /\ daily_summary[2].EndOfDayCapital = final_summary.FinalCapital

\* ------------------------------------------------------------------ charges claims
\* Turnover of a recorded call, and its rates.
TurnoverOf(c) == c.price * c.quantity
RatesOf(c) == c.charges_config[c.transaction_type]

\* C14: calculate_transaction_charges never returns a brokerage above the cap
\* of 20 rupees: brokerage is min(turnover x brokerage rate / 100, 20) for
\* every price, quantity and side.
C14_BrokerageCapped ==
    \A i \in 1..Len(charges_calls) :
        LET c == charges_calls[i]
        IN  /\ c.result.brokerage <= 20 * Unit
            /\ c.result.brokerage * 100 =
                   Min(TurnoverOf(c) * RatesOf(c).BROKERAGE, 20 * Unit * 100)

\* C14 witness: a call whose uncapped brokerage would exceed 20 rupees.
C14_Witness ==
    \E i \in 1..Len(charges_calls) :
        /\ TurnoverOf(charges_calls[i]) * RatesOf(charges_calls[i]).BROKERAGE > 20 * Unit * 100
        /\ charges_calls[i].result.brokerage = 20 * Unit

\* C15: for a fixed side and fixed non-negative rates the total charge is
\* monotonically non-decreasing in turnover, also across the brokerage cap.
C15_TotalMonotoneInTurnover ==
    \A i, j \in 1..Len(charges_calls) :
        LET a == charges_calls[i]
            b == charges_calls[j]
        IN  (/\ a.transaction_type = b.transaction_type
             /\ a.charges_config = b.charges_config
             /\ TurnoverOf(a) <= TurnoverOf(b)) => a.result.total <= b.result.total

\* C15 witness: two calls with the same side and rates, the first just below
\* the brokerage cap and the second above it, with a larger total.
C15_Witness ==
    /\ Len(charges_calls) = 2
    /\ charges_calls[1].transaction_type = charges_calls[2].transaction_type
    /\ charges_calls[1].charges_config = charges_calls[2].charges_config
    /\ charges_calls[1].result.brokerage < 20 * Unit
    /\ charges_calls[1].result.brokerage > 19 * Unit
    /\ TurnoverOf(charges_calls[2]) * RatesOf(charges_calls[2]).BROKERAGE > 20 * Unit * 100
    /\ charges_calls[1].result.total < charges_calls[2].result.total

\* C16: the breakdown matches the reference formula: securities tax,
\* transaction charge and regulatory charge are turnover x rate, tax-on-fees is
\* (brokerage + transaction charge + regulatory charge) x tax rate, stamp duty
\* is turnover x stamp rate for BUY and 0 for SELL, the total is the sum of the
\* six components, and equal arguments give equal breakdowns.
C16_MatchesReferenceFormula ==
    /\ \A i \in 1..Len(charges_calls) :
          LET c == charges_calls[i]
              r == c.result
          IN  /\ r.stt * 100 = TurnoverOf(c) * RatesOf(c).STT
              /\ r.transaction_charge * 100 = TurnoverOf(c) * RatesOf(c).TRANSACTION
              /\ r.sebi_charge * 100 = TurnoverOf(c) * RatesOf(c).SEBI
              /\ r.gst * 100 =
                     (r.brokerage + r.transaction_charge + r.sebi_charge) * RatesOf(c).GST
              /\ c.transaction_type = "BUY" =>
                     r.stamp_duty * 100 = TurnoverOf(c) * RatesOf(c).STAMP
              /\ c.transaction_type = "SELL" => r.stamp_duty = 0
              /\ r.total = r.brokerage + r.stt + r.transaction_charge + r.sebi_charge
                           + r.gst + r.stamp_duty
    /\ \A i, j \in 1..Len(charges_calls) :
          (/\ charges_calls[i].price = charges_calls[j].price
           /\ charges_calls[i].quantity = charges_calls[j].quantity
           /\ charges_calls[i].transaction_type = charges_calls[j].transaction_type
           /\ charges_calls[i].charges_config = charges_calls[j].charges_config)
          => charges_calls[i].result = charges_calls[j].result

\* C16 witness: a SELL whose configured stamp rate is positive and whose stamp
\* duty is 0 with every other component positive, after a BUY with the same
\* price, quantity and configuration that paid stamp duty.
C16_Witness ==
    /\ Len(charges_calls) = 2
    /\ charges_calls[1].transaction_type = "BUY"
    /\ charges_calls[2].transaction_type = "SELL"
    /\ charges_calls[1].price = charges_calls[2].price
    /\ charges_calls[1].quantity = charges_calls[2].quantity
    /\ charges_calls[1].charges_config = charges_calls[2].charges_config
    /\ charges_calls[1].result.stamp_duty > 0
    /\ RatesOf(charges_calls[2]).STAMP > 0
    /\ charges_calls[2].result.stamp_duty = 0
    /\ charges_calls[2].result.gst > 0
    /\ charges_calls[2].result.stt # charges_calls[2].result.sebi_charge

\* ------------------------------------------------------------------ configuration errors
\* C17: a charges configuration that lacks a required rate for a side, or the
\* whole CHARGES section, is a fatal error raised before any bar is processed:
\* such a run produces no trade event, no missed-signal event and no state
\* change, and returns no result.
C17_ConfigErrorBeforeAnyBar ==
    (\/ ChargesKeyError("BUY", config.charges_config)
     \/ ChargesKeyError("SELL", config.charges_config)) =>
        /\ trades = <<>>
        /\ missed_signals = <<>>
        /\ daily_summary = <<>>
        /\ long_positions = <<>>
        /\ free_cash = config.initial_capital
        /\ data # <<>> => pc = "raised"

\* ------------------------------------------------------------------ data errors
\* C18: a bar whose close or ATR is non-positive is a data error: the engine
\* performs no entry and no exit on it (no trade event at that price, no
\* position created from it, none closed), and the run continues.
C18_BadBarTradesNothing ==
    [][(data' # data /\ (Last(data').close <= 0 \/ Last(data').ATR <= 0)) =>
          /\ trades' = trades
          /\ long_positions' = long_positions
          /\ pc' = "loop"]_vars

\* C19: a bar whose timestamp is not strictly greater than the previous bar's
\* is a data error: it produces no trade event, no missed-signal event, no day
\* snapshot and no change to capital, free cash or the ledger.
C19_StaleBarSkipped ==
    [][(data' # data /\ data # <<>> /\ Last(data').timestamp <= Last(data).timestamp) =>
          UNCHANGED <<trades, missed_signals, daily_summary, capital, free_cash,
                      long_positions>>]_vars

\* ------------------------------------------------------------------ total revenue
\* C20: 'Total Revenue' of the final summary is the net sale proceeds of every
\* exit of the trade log, Sell and Square Off alike; with no shares left,
\* 'Total Profit/Loss' = 'Total Revenue' - 'Total Cost'.
C20_TotalRevenueCoversAllExits ==
    pc = "done" =>
        /\ final_summary.TotalRevenue = ProceedsOver(trades, ExitIndices)
        /\ final_summary.CurrentStockHolding = 0 =>
              final_summary.TotalProfitLoss =
                  final_summary.TotalRevenue - final_summary.TotalCost

\* ------------------------------------------------------------------ runs of main
\* The locals of simulate_trades before the first row.
FreshLocals ==
    [capital |-> config.initial_capital,
     free_cash |-> config.initial_capital,
     total_profit_loss |-> 0, total_revenue |-> 0, total_cost |-> 0,
     trades |-> <<>>, missed_signals |-> <<>>, daily_summary |-> <<>>,
     long_positions |-> <<>>, current_day |-> 0, start_of_day_capital |-> 0,
     daily_margin_used |-> 0, daily_profit_loss |-> 0]

\* The locals after the rows `rows`, starting from the locals s.
RECURSIVE RunFrom(_, _)
RunFrom(s, rows) ==
    IF rows = <<>> THEN s ELSE RunFrom(ProcessRow(s, Head(rows), config), Tail(rows))

\* The recorded call returned what a call on the same rows returns when it is
\* the only call ever made.
SameAsAlone(run) ==
    LET n == RunFrom(FreshLocals, run.data)
    IN  /\ run.trades = n.trades
        /\ run.missed_signals = n.missed_signals
        /\ run.daily_summary =
              IF n.current_day # 0
              THEN Append(n.daily_summary, [Date |-> n.current_day,
                                            StartOfDayCapital |-> n.start_of_day_capital,
                                            EndOfDayCapital |-> n.capital])
              ELSE n.daily_summary
        /\ run.final_summary.FinalCapital = config.initial_capital + n.total_profit_loss
        /\ run.final_summary.TotalProfitLoss = n.total_profit_loss
        /\ run.final_summary.TotalRevenue = n.total_revenue
        /\ run.final_summary.TotalCost = n.total_cost

\* C21: simulate_trades keeps no state across runs: every run starts from
\* capital = free_cash = initial_capital with an empty ledger and empty logs,
\* each call returns, when it is reported, what a call on the same bars returns
\* on its own, and two runs on the same bars and configuration return identical
\* trade, missed-signal and daily logs and summary, whatever ran before or in between.
C21_RunsAreIndependent ==
    /\ (pc = "loop" /\ data = <<>>) =>
          /\ capital = config.initial_capital
          /\ free_cash = config.initial_capital
          /\ long_positions = <<>>
          /\ trades = <<>> /\ missed_signals = <<>> /\ daily_summary = <<>>
    /\ pc = "reported" => SameAsAlone(Last(runs))
    /\ \A i, j \in 1..Len(runs) :
          runs[i].data = runs[j].data =>
              /\ runs[i].trades = runs[j].trades
              /\ runs[i].missed_signals = runs[j].missed_signals
              /\ runs[i].daily_summary = runs[j].daily_summary
              /\ runs[i].final_summary = runs[j].final_summary

\* C21 witness: a run that changed the capital, followed by a different run
\* that traded as well.
C21_Witness ==
    /\ Len(runs) = 2
    /\ runs[1].data # runs[2].data
    /\ runs[1].final_summary.FinalCapital # config.initial_capital
    /\ runs[2].final_summary.FinalCapital # config.initial_capital
    /\ runs[2].final_summary.FinalCapital # runs[1].final_summary.FinalCapital

\* ------------------------------------------------------------------ win rate
\* Exits, and exits with a positive profit/loss, of a trade log.
CompletedIn(log) == {i \in 1..Len(log) : log[i].Type \in ExitTypes}
WinsIn(log) == {i \in CompletedIn(log) : log[i].ProfitLoss > 0}

\* C22 (amended): the reported win rate is the number of Sell/Square Off events
\* with profit/loss > 0 divided by the number of all Sell/Square Off events,
\* as a percentage rounded to two decimals (within half a hundredth of a
\* percent of the ratio), and zero when there is no completed trade; Buy events never count.
C22_WinRateIsRoundedPercentage ==
    \A i \in 1..Len(runs) :
        LET log == runs[i].trades
            wins == Cardinality(WinsIn(log))
            total == Cardinality(CompletedIn(log))
            rate == summary_data[i].WinRate
        IN  /\ Len(summary_data) >= i
            /\ total = 0 => rate = 0
            /\ total > 0 =>
                  /\ 2 * (rate * total - wins * 10000) <= total
                  /\ 2 * (wins * 10000 - rate * total) <= total

\* C22 witness: two wins out of three completed trades, reported as 66.67, and
\* a run whose only completed trade is a winning Square Off.
C22_Witness ==
    /\ Len(runs) = 2
    /\ Cardinality(CompletedIn(runs[1].trades)) = 3
    /\ Cardinality(WinsIn(runs[1].trades)) = 2
    /\ summary_data[1].WinRate = 6667
    /\ \E k \in CompletedIn(runs[2].trades) : runs[2].trades[k].Type = "Square Off"
    /\ summary_data[2].WinRate = 10000

\* C22 as stated: the reported win rate is exactly wins divided by completed
\* trades (read as a percentage), and zero without completed trades.
C22_WinRateIsExactRatio ==
    \A i \in 1..Len(runs) :
        LET log == runs[i].trades
            wins == Cardinality(WinsIn(log))
            total == Cardinality(CompletedIn(log))
        IN  /\ total = 0 => summary_data[i].WinRate = 0
            /\ total > 0 => summary_data[i].WinRate * total = wins * 10000

\* ------------------------------------------------------------------ order of the steps of a bar
\* C23: within one bar the day rollover is applied before the scheduled
\* square-off: the 'End of Day Capital' logged for the day that ended is the
\* capital as it stood after that day's last bar, and the profit/loss of a
\* square-off on the first bar of the new day belongs to the new day, which
\* starts from that same capital.
C23_RolloverBeforeSquareOff ==
    [][(data' # data /\ current_day # 0 /\ current_day' # current_day) =>
          /\ Last(daily_summary').EndOfDayCapital = capital
          /\ start_of_day_capital' = capital]_vars

\* C24: after any bar is processed no position remains open for which that bar
\* had Sell_Signal set, or a close at or above the position's target, or a
\* close at or below its trailing stop, whether or not a buy was attempted,
\* missed or gated on the bar.
C24_NoDuePositionStaysOpen ==
    data # <<>> =>
        \A i \in 1..Len(long_positions) :
            /\ ~Last(data).Sell_Signal
            /\ Last(data).close < long_positions[i].target_price
            /\ Last(data).close > long_positions[i].trailing_stop_loss

\* C25: on a bar at or after the square-off deadline every open position is
\* exited at the bar's close by a Square Off event with reason 'Square Off
\* Before Market Close', whatever the bar's signals and close: the bar produces
\* one such event per position, in ledger order, no Sell event, and leaves the
\* ledger empty.
C25_SquareOffRegardlessOfSignals ==
    [][(data' # data /\ MinuteOfDay(Last(data').timestamp) >= 900) =>
          /\ NewEvents("Sell") = <<>>
          /\ Len(NewEvents("Square Off")) = Len(long_positions)
          /\ \A j \in 1..Len(long_positions) :
                /\ NewEvents("Square Off")[j].Shares = long_positions[j].shares
                /\ NewEvents("Square Off")[j].Price = Last(data').close
                /\ NewEvents("Square Off")[j].Time = Last(data').timestamp
                /\ NewEvents("Square Off")[j].Reason = "Square Off Before Market Close"
          /\ long_positions' = <<>>]_vars

\* C25 witness: a Square Off of a position on a bar that has Sell_Signal set
\* and a close at the position's target.
C25_Witness ==
    \E i \in 1..Len(trades), k \in 1..Len(data), b \in 1..Len(trades) :
        /\ trades[i].Type = "Square Off"
        /\ data[k].timestamp = trades[i].Time
        /\ data[k].Sell_Signal
        /\ b < i /\ trades[b].Type = "Buy" /\ trades[b].Shares = trades[i].Shares
        /\ 2 * trades[i].Price >= 3 * trades[b].Price

\* C26: the exit check (d) never fires: no run's trade log holds a Sell event
\* with reason 'Square Off Before Market Close'.
C26_NoSellAtDeadline ==
    \A i \in 1..Len(trades) :
        ~(trades[i].Type = "Sell" /\ trades[i].Reason = "Square Off Before Market Close")

\* C26 witness: a bar at or after the deadline, without buy signal, reached the
\* exit evaluation after the scheduled square-off had closed a position on it.
C26_Witness ==
    \E i \in 1..Len(trades), k \in 1..Len(data) :
        /\ trades[i].Type = "Square Off"
        /\ data[k].timestamp = trades[i].Time
        /\ ~data[k].Buy_Signal
        /\ ~data[k].Sell_Signal
        /\ k = Len(data)
        /\ long_positions = <<>>

\* ------------------------------------------------------------------ entries and exits, step by step
\* The free cash a buy of the step finds.  Buys happen before 14:30, where no
\* scheduled square-off runs: it is the capital on the first bar of a day (the
\* day change has just reset it) and the free cash left by the bar before otherwise.
GateFreeCash == IF current_day' # current_day THEN capital ELSE free_cash

\* The margin a buy of the step allocates, and its buying power.
GateMargin == (GateFreeCash * config.trade_allocation.num) \div config.trade_allocation.den
GatePower == GateMargin * config.leverage

\* C27: on an executed buy, allocated_margin = free_cash x trade_allocation and
\* shares = floor(allocated_margin x leverage / price) >= 1, that is
\* shares x price <= buying power < (shares + 1) x price; a position that stays
\* open records these shares, margin_used = allocated_margin, target = price x
\* (1 + target_profit_percentage / 100) and stop = price - ATR x atr_multiplier,
\* and free_cash has decreased by exactly allocated_margin; without a Buy event
\* the ledger does not grow, and no position has zero shares.
C27_EntrySizing ==
    [][data' # data =>
        LET row == Last(data')
            buys == NewEvents("Buy")
        IN  /\ Len(buys) <= 1
            /\ buys = <<>> => Len(long_positions') <= Len(long_positions)
            /\ \A i \in 1..Len(long_positions') : long_positions'[i].shares >= 1
            /\ buys # <<>> =>
                  /\ GateMargin * config.trade_allocation.den =
                         GateFreeCash * config.trade_allocation.num
                  /\ buys[1].Price = row.close
                  /\ buys[1].Shares >= 1
                  /\ buys[1].Shares * row.close <= GatePower
                  /\ GatePower < (buys[1].Shares + 1) * row.close
                  /\ NewEvents("Sell") = <<>> =>
                        /\ free_cash' = GateFreeCash - GateMargin
                        /\ long_positions' =
                              Append(long_positions,
                                     [shares |-> buys[1].Shares,
                                      price |-> row.close,
                                      buy_charges |-> buys[1].Charges,
                                      margin_used |-> GateMargin,
                                      target_price |->
                                          (row.close * (100 + config.target_profit_percentage))
                                              \div 100,
                                      trailing_stop_loss |->
                                          row.close - row.ATR * config.atr_multiplier])
                        /\ Last(long_positions').target_price * 100 =
                               row.close * (100 + config.target_profit_percentage)]_vars

\* C27 witness: an open position whose shares were rounded down (its cost is
\* below the buying power of its margin) after an earlier buy had already
\* reduced the free cash.
C27_Witness ==
    /\ Len(long_positions) = 2
    /\ long_positions[2].margin_used * 2 = long_positions[1].margin_used
    /\ long_positions[2].shares * long_positions[2].price
           < long_positions[2].margin_used * config.leverage
    /\ free_cash = long_positions[2].margin_used

\* The positions the exit evaluation of the step meets, with the fields an
\* exit uses: the ledger (empty from 15:00 on), then the position of the step's Buy.
EvaluatedLedger ==
    LET row == Last(data')
        kept == IF MinuteOfDay(row.timestamp) >= 900 THEN <<>> ELSE long_positions
        bought == NewEvents("Buy")
    IN  kept \o [i \in 1..Len(bought) |->
                    [shares |-> bought[i].Shares,
                     price |-> bought[i].Price,
                     buy_charges |-> bought[i].Charges,
                     margin_used |-> GateMargin,
                     target_price |->
                         (bought[i].Price * (100 + config.target_profit_percentage)) \div 100,
                     trailing_stop_loss |-> bought[i].Price - row.ATR * config.atr_multiplier]]

\* The positions the step's Sell events close, in order.
SoldPositions ==
    IF ReachesExitEvaluation
    THEN SelectSeq(EvaluatedLedger,
                   LAMBDA p : PriorityReason(Last(data'), p.target_price,
                                             p.trailing_stop_loss) # "None")
    ELSE <<>>

\* Net sale proceeds of an exit event, and the profit/loss it realises on the position p.
NetProceeds(e) == e.Shares * e.Price - e.Charges
RealisedOn(e, p) == NetProceeds(e) - (p.shares * p.price + p.buy_charges)

\* C28: on every exit, Sell or Square Off, the event's profit/loss is
\* (shares x exit price - sell charges) - (shares x entry price + buy charges of
\* the position); capital and the cumulative profit/loss change by the sum of
\* these amounts over the step's exits; each exit adds margin_used plus net
\* proceeds to free_cash (on a bar that changes the day the reset to capital
\* follows the square-off); and the exited positions leave the ledger.
C28_ExitAccounting ==
    [][data' # data =>
        LET row == Last(data')
            offs == NewEvents("Square Off")
            sells == NewEvents("Sell")
            sold == SoldPositions
            realised ==
                SumSeq([j \in 1..Len(offs) |-> offs[j].ProfitLoss])
                + SumSeq([j \in 1..Len(sells) |-> sells[j].ProfitLoss])
            returned ==
                SumSeq([j \in 1..Len(offs) |->
                            long_positions[j].margin_used + NetProceeds(offs[j])])
                + SumSeq([j \in 1..Len(sells) |->
                            sold[j].margin_used + NetProceeds(sells[j])])
        IN  /\ Len(sells) = Len(sold)
            /\ Len(offs) = IF MinuteOfDay(row.timestamp) >= 900 THEN Len(long_positions) ELSE 0
            /\ \A j \in 1..Len(offs) :
                  /\ offs[j].Shares = long_positions[j].shares
                  /\ offs[j].Price = row.close
                  /\ offs[j].ProfitLoss = RealisedOn(offs[j], long_positions[j])
            /\ \A j \in 1..Len(sells) :
                  /\ sells[j].Shares = sold[j].shares
                  /\ sells[j].Price = row.close
                  /\ sells[j].ProfitLoss = RealisedOn(sells[j], sold[j])
            /\ capital' = capital + realised
            /\ total_profit_loss' = total_profit_loss + realised
            /\ free_cash' =
                  IF MinuteOfDay(row.timestamp) >= 900
                  THEN IF current_day' # current_day THEN capital' ELSE free_cash + returned
                  ELSE GateFreeCash
                       - (IF NewEvents("Buy") # <<>> THEN GateMargin ELSE 0) + returned
            /\ Len(long_positions') =
                  IF MinuteOfDay(row.timestamp) >= 900 THEN 0
                  ELSE Len(EvaluatedLedger) - Len(sells)
            /\ \A i \in 1..Len(long_positions') :
                  \E k \in 1..Len(EvaluatedLedger) : long_positions'[i] = EvaluatedLedger[k]]_vars

\* C28 witness: a charged Sell at a loss and a charged Square Off in one log,
\* with the ledger empty again.
C28_Witness ==
    /\ long_positions = <<>>
    /\ \E i, j \in 1..Len(trades) :
          /\ trades[i].Type = "Sell" /\ trades[i].Charges > 0 /\ trades[i].ProfitLoss < 0
          /\ trades[j].Type = "Square Off" /\ trades[j].Charges > 0

\* ------------------------------------------------------------------ exit on the bar of the buy
\* The bar of the step bought, and the new position is due for exit on it.
BoughtAndDue ==
    /\ NewEvents("Buy") # <<>>
    /\ PriorityReason(Last(data'), Last(EvaluatedLedger).target_price,
                      Last(EvaluatedLedger).trailing_stop_loss) # "None"

\* The event e is the Sell of the position bought by the event b on the same bar.
SellsBackBuy(e, b) ==
    /\ e.Type = "Sell"
    /\ e.Shares = b.Shares
    /\ e.Time = b.Time
    /\ e.Price = b.Price
    /\ e.ProfitLoss = 0 - (b.Charges + e.Charges)

\* C29 (amended): a position opened on a bar is evaluated for exit on that same
\* bar: if the bar also has Sell_Signal set (or its close meets the new
\* position's target or stop), the bar's events are the Buy, then the Sells of
\* the positions opened earlier that are due, and last the Sell of the same
\* shares at the same timestamp and price, with profit/loss minus (buy charges
\* + sell charges).
C29_SameBarExitClosesNewPosition ==
    [][(data' # data /\ BoughtAndDue) =>
          /\ trades'[Len(trades) + 1].Type = "Buy"
          /\ Len(trades') = Len(trades) + 1 + Len(SoldPositions)
          /\ \A j \in 1..Len(SoldPositions) :
                /\ trades'[Len(trades) + 1 + j].Type = "Sell"
                /\ trades'[Len(trades) + 1 + j].Shares = SoldPositions[j].shares
          /\ SellsBackBuy(Last(trades'), trades'[Len(trades) + 1])
          /\ Len(long_positions') <= Len(long_positions)]_vars

\* C29 witness: a charged Buy, the Sell of an older position and the Sell of
\* the bought shares, all on one bar, at the end of the log.
C29_Witness ==
    /\ Len(trades) >= 4
    /\ trades[Len(trades) - 2].Type = "Buy"
    /\ trades[Len(trades) - 2].Charges > 0
    /\ trades[Len(trades) - 1].Type = "Sell"
    /\ trades[Len(trades) - 1].Time = trades[Len(trades)].Time
    /\ SellsBackBuy(trades[Len(trades)], trades[Len(trades) - 2])

\* C29 as stated: the Buy is immediately followed in the trade log by the Sell
\* of the same shares at the same timestamp and price, with profit/loss minus
\* (buy charges + sell charges).
C29_BuyImmediatelyFollowedBySell ==
    [][(data' # data /\ BoughtAndDue) =>
          /\ trades'[Len(trades) + 1].Type = "Buy"
          /\ Len(trades') >= Len(trades) + 2
          /\ SellsBackBuy(trades'[Len(trades) + 2], trades'[Len(trades) + 1])]_vars

\* ------------------------------------------------------------------ free cash at a day change
\* C30 (amended): at every day transition free_cash is reset to the current
\* capital, which is the new day's 'Start of Day Capital': an entry on the
\* first bar of a day is sized from that capital, whatever free cash the
\* previous day left, and after that bar free_cash is the day's starting
\* capital less the margin of the bar's buy plus what the bar's Sells return.
C30_FreeCashResetAtDayChange ==
    [][(data' # data /\ current_day' # current_day) =>
        LET row == Last(data')
            buys == NewEvents("Buy")
            sells == NewEvents("Sell")
            day_margin ==
                (start_of_day_capital' * config.trade_allocation.num)
                    \div config.trade_allocation.den
        IN  /\ \A j \in 1..Len(buys) :
                  /\ buys[j].Shares * row.close <= day_margin * config.leverage
                  /\ day_margin * config.leverage < (buys[j].Shares + 1) * row.close
            /\ free_cash' =
                  start_of_day_capital'
                  - (IF buys # <<>> THEN day_margin ELSE 0)
                  + SumSeq([j \in 1..Len(sells) |->
                               SoldPositions[j].margin_used + NetProceeds(sells[j])])]_vars

\* C30 witness: the first bar of the second day bought with the margin taken
\* from the day's starting capital, while a position bought the day before,
\* whose margin was missing from the free cash left by that day, is still open.
C30_Witness ==
    /\ Len(data) = 2
    /\ current_day = 2
    /\ Len(daily_summary) = 1
    /\ Len(long_positions) = 2
    /\ Last(trades).Type = "Buy"
    /\ Last(trades).Time = Last(data).timestamp
    /\ long_positions[2].margin_used * config.trade_allocation.den =
           start_of_day_capital * config.trade_allocation.num
    /\ long_positions[1].margin_used = long_positions[2].margin_used

\* C30 as stated: the free cash available to the first entry of each day
\* equals that day's 'Start of Day Capital'.
C30_FirstEntryFindsStartOfDayCapital ==
    [][(/\ data' # data
        /\ NewEvents("Buy") # <<>>
        /\ \A i \in 1..Len(trades) :
              trades[i].Type = "Buy" =>
                  trades[i].Time \div 1440 # Last(data').timestamp \div 1440) =>
          GateFreeCash = start_of_day_capital']_vars

\* ------------------------------------------------------------------ frame of entries
\* The locals as the row of the step finds them at the buy gate (line 126),
\* and as the gate and the buy logic (lines 126-171) leave them.
GateState == AtBuyGate(EngineState, Last(data'), config)
AfterBuyLogic ==
    IF BuyRestricted(Last(data'))
    THEN RestrictedStep(GateState, Last(data'))
    ELSE BuyStep(GateState, Last(data'), config)

\* a is b with some elements left out.
RECURSIVE IsSubSeq(_, _)
IsSubSeq(a, b) ==
    IF a = <<>> THEN TRUE
    ELSE IF b = <<>> THEN FALSE
    ELSE \/ Head(a) = Head(b) /\ IsSubSeq(Tail(a), Tail(b))
         \/ IsSubSeq(a, Tail(b))

\* C31: executing a Buy changes only free_cash, total cost, the ledger (one
\* position appended, the existing ones untouched) and the trade log (one Buy
\* event with profit/loss 0), and leaves capital and cumulative profit/loss
\* unchanged; besides these only the counter daily_margin_used, which nothing
\* reads, moves.  Recording a missed signal changes nothing but the
\* missed-signal log.  Every position in the ledger after a bar is, field for
\* field, a position that was in it before or the one the bar bought, in the
\* same order.
C31_EntryFrame ==
    [][data' # data =>
        LET row == Last(data')
            g == GateState
            b == AfterBuyLogic
        IN  /\ b.trades # g.trades =>
                  /\ b = [g EXCEPT !.free_cash = b.free_cash,
                                   !.total_cost = b.total_cost,
                                   !.long_positions = b.long_positions,
                                   !.trades = b.trades,
                                   !.daily_margin_used = b.daily_margin_used]
                  /\ b.capital = g.capital
                  /\ b.total_profit_loss = g.total_profit_loss
                  /\ b.trades = Append(g.trades, Last(b.trades))
                  /\ Last(b.trades).Type = "Buy"
                  /\ Last(b.trades).ProfitLoss = 0
                  /\ b.long_positions = Append(g.long_positions, Last(b.long_positions))
                  /\ b.free_cash = g.free_cash - Last(b.long_positions).margin_used
                  /\ b.total_cost = g.total_cost + Last(b.trades).Shares * row.close
                                        + Last(b.trades).Charges
                  /\ trades'[Len(g.trades) + 1] = Last(b.trades)
            /\ b.missed_signals # g.missed_signals =>
                  /\ b = [g EXCEPT !.missed_signals = b.missed_signals]
                  /\ b.missed_signals = Append(g.missed_signals, Last(b.missed_signals))
                  /\ Last(b.missed_signals).Time = row.timestamp
                  /\ Last(b.missed_signals).Price = row.close
                  /\ missed_signals' = b.missed_signals
                  /\ NewEvents("Buy") = <<>>
            /\ IsSubSeq(long_positions', EvaluatedLedger)]_vars

\* C31 witness: two buys, the second made while the first position was open,
\* then a missed signal; capital and profit/loss are where they started and the
\* first position still has the fields it was given by its Buy.
C31_Witness ==
    /\ Len(trades) = 2
    /\ \A i \in 1..2 : trades[i].Type = "Buy" /\ trades[i].ProfitLoss = 0
    /\ trades[1].Charges > 0
    /\ Len(long_positions) = 2
    /\ long_positions[1].shares = trades[1].Shares
    /\ long_positions[1].price = trades[1].Price
    /\ long_positions[1].buy_charges = trades[1].Charges
    /\ Len(missed_signals) = 1
    /\ capital = config.initial_capital
    /\ total_profit_loss = 0

\* ------------------------------------------------------------------ order of exits within a bar
\* The position p is due for exit at the exit evaluation of the step's row.
DueOnRow(p) ==
    PriorityReason(Last(data'), p.target_price, p.trailing_stop_loss) # "None"

\* The event e closes the position p: its shares, and the profit/loss that
\* p's entry price and buy charges give.
ClosesPosition(e, p) ==
    /\ e.Shares = p.shares
    /\ e.ProfitLoss = RealisedOn(e, p)
    /\ e.Time = Last(data').timestamp

\* C32: within one bar, exits are emitted in ledger insertion order: the
\* bar's Square Off events close the positions of the ledger, one event per
\* position and in ledger order; the bar's Sell events close the positions
\* that satisfy an exit condition, one event per such position and in ledger
\* order (the position the bar itself bought last); and the positions that do
\* not match stay in the ledger in their original relative order.
C32_ExitsInLedgerOrder ==
    [][data' # data =>
        LET row == Last(data')
            offs == NewEvents("Square Off")
            buys == NewEvents("Buy")
            sells == NewEvents("Sell")
            squared == IF MinuteOfDay(row.timestamp) >= 900 THEN long_positions ELSE <<>>
        IN  /\ Len(offs) = Len(squared)
            /\ \A j \in 1..Len(offs) : ClosesPosition(offs[j], squared[j])
            /\ Len(sells) = Len(SoldPositions)
            /\ \A j \in 1..Len(sells) : ClosesPosition(sells[j], SoldPositions[j])
            /\ SubSeq(trades', Len(trades) + 1, Len(trades')) = offs \o buys \o sells
            /\ long_positions' =
                  IF ReachesExitEvaluation
                  THEN SelectSeq(EvaluatedLedger, LAMBDA p : ~DueOnRow(p))
                  ELSE EvaluatedLedger]_vars

\* C32 witness: of two open positions the bar closed the younger one (its
\* stop was met) and left the older one, and the position the bar bought
\* stands behind the older one in the ledger.
C32_Witness ==
    /\ Len(trades) = 4
    /\ trades[1].Type = "Buy" /\ trades[2].Type = "Buy"
    /\ trades[3].Type = "Buy" /\ trades[4].Type = "Sell"
    /\ trades[1].Time < trades[2].Time
    /\ trades[3].Time = trades[4].Time
    /\ trades[4].Reason = "Trailing Stop-Loss Triggered"
    /\ trades[4].Shares = trades[2].Shares
    /\ trades[1].Shares # trades[2].Shares
    /\ Len(long_positions) = 2
    /\ long_positions[1].shares = trades[1].Shares
    /\ long_positions[1].price = trades[1].Price
    /\ long_positions[2].price = trades[3].Price

\* ------------------------------------------------------------------ buy signals accounted for
\* The number of rows of d with Buy_Signal set.
BuySignalBars(d) == Cardinality({k \in 1..Len(d) : d[k].Buy_Signal})

\* The number of Buy events of the log.
BuyEvents(log) == Cardinality({i \in 1..Len(log) : log[i].Type = "Buy"})

\* C33: every bar with Buy_Signal set and a positive price produces exactly
\* one of: one Buy event, or one missed-signal event ('Insufficient Funds' or
\* 'Buy restricted near market close'), at the bar's timestamp and price; a
\* bar without Buy_Signal produces neither; so the Buy events and the
\* missed-signal events together number the buy-signal bars.
C33_EveryBuySignalAccountedFor ==
    [][(data' # data /\ Last(data').close > 0) =>
        LET row == Last(data')
            buys == NewEvents("Buy")
            missed == SubSeq(missed_signals', Len(missed_signals) + 1, Len(missed_signals'))
        IN  /\ SubSeq(missed_signals', 1, Len(missed_signals)) = missed_signals
            /\ Len(buys) + Len(missed) = (IF row.Buy_Signal THEN 1 ELSE 0)
            /\ \A j \in 1..Len(buys) :
                  buys[j].Time = row.timestamp /\ buys[j].Price = row.close
            /\ \A j \in 1..Len(missed) :
                  /\ missed[j].Time = row.timestamp
                  /\ missed[j].Price = row.close
                  /\ missed[j].Reason =
                         IF MinuteOfDay(row.timestamp) >= 870
                         THEN "Buy restricted near market close"
                         ELSE "Insufficient Funds"
            /\ BuyEvents(trades') + Len(missed_signals') = BuySignalBars(data')]_vars

\* C33 witness: three buy-signal bars, one bought, one missed for want of
\* funds, one missed by the restriction near the close.
C33_Witness ==
    /\ Len(data) = 3
    /\ BuySignalBars(data) = 3
    /\ BuyEvents(trades) = 1
    /\ Len(missed_signals) = 2
    /\ missed_signals[1].Reason = "Insufficient Funds"
    /\ missed_signals[2].Reason = "Buy restricted near market close"

\* ------------------------------------------------------------------ authentication
\* The entries of the trace that are calls of `call`.
AuthCalls(call) == SelectSeq(auth_trace, LAMBDA e : e.call = call)

\* C35 as stated: per call of get_auth_token at most one profile validation,
\* at most one refresh (generateToken) and at most one full login
\* (generateSession); stored tokens that validate are returned without a
\* refresh, a login or a rewrite of the token file; and a token obtained by
\* refresh or login is returned without 'Bearer ' prefix, saved in the token
\* file with its refresh token.
C35_OneValidationRefreshLogin ==
    /\ Len(AuthCalls("getProfile")) <= 1
    /\ Len(AuthCalls("generateToken")) <= 1
    /\ Len(AuthCalls("generateSession")) <= 1
    /\ (auth_result.status = "returned" /\ AuthCalls("getProfile") # <<>>
            /\ AuthCalls("getProfile")[1].outcome = "ok") =>
          /\ Len(auth_trace) = 1
          /\ auth_result.token = <<"jwt0">>
    /\ (auth_result.status = "returned" /\ Len(auth_trace) > 1) =>
          /\ auth_result.token \in {<<"jwt1">>, <<"jwt2">>}
          /\ tokens_json.file = "written"
          /\ tokens_json.jwtToken = auth_result.token
          /\ Last(auth_trace).call = "save_tokens"
          /\ Last(auth_trace).outcome = "ok"
          /\ load_tokens(tokens_json) = Last(auth_trace).args

\* C36 as stated: a full login that follows a token refresh is made with the
\* client_id, pin and totp_secret the caller passed to get_auth_token.
C36_FallbackLoginUsesCallerCredentials ==
    \A i \in 1..Len(auth_trace) :
        (auth_trace[i].call = "generateSession" /\ AuthCalls("generateToken") # <<>>) =>
            /\ auth_trace[i].args.client_id = credentials.client_id
            /\ auth_trace[i].args.pin = credentials.pin
            /\ auth_trace[i].args.otp = totp_now(credentials.totp_secret)

\* C37 as stated: a call that ends on a failed save of the tokens raises
\* TokenError, and a call that ends on a rejected login raises
\* AuthenticationError.
C37_SaveFailureIsTokenError ==
    (auth_result.status = "raised" /\ auth_trace # <<>>) =>
        /\ (Last(auth_trace).call = "save_tokens" /\ Last(auth_trace).outcome = "raised") =>
              auth_result.exception = "TokenError"
        /\ (Last(auth_trace).call = "generateSession"
                /\ Last(auth_trace).outcome = "rejected") =>
              auth_result.exception = "AuthenticationError"

\* ------------------------------------------------------------------ the cache
\* The rows of the frame stand in strictly increasing order of timestamp.
StrictlyIncreasing(frame) ==
    \A i \in 1..Len(frame) - 1 : frame[i].timestamp < frame[i + 1].timestamp

\* C38 as stated: after fetch_historical_data_with_cache has fetched and
\* stored a token and date range, a second call with the same token and date
\* range makes no getCandleData call and returns the same bars, sorted by
\* strictly increasing timestamp.
C38_RepeatedRequestServedLocally ==
    [][fetch_results' # fetch_results =>
        LET second == Last(fetch_results')
        IN  \A i \in 1..Len(fetch_results) :
                (fetch_results[i].stored /\ fetch_results[i].request = second.request) =>
                    /\ candle_calls' = candle_calls
                    /\ second.all_data = fetch_results[i].all_data
                    /\ StrictlyIncreasing(second.all_data)]_vars

\* ------------------------------------------------------------------ the batch
\* C34 as stated: when the historical data of an instrument cannot be fetched
\* (the remote call answers with a failure or raises), main skips the
\* instrument and goes on: it stands at the next instrument or at the end of
\* the loop, nothing was added to the summary, and a summary that is saved
\* holds the instruments that succeeded.
C34_FailedFetchSkipsInstrument ==
    [][(/\ main_pc = "fetch"
        /\ candle_calls' # candle_calls
        /\ Last(candle_calls').answer # "ok") =>
            /\ main_pc' \in {"fetch", "end of loop"}
            /\ summary_data' = summary_data]_vars

====
